---------------------------- MODULE Spec2Model ----------------------------
(***************************************************************************)
(* A model of the temporal anti-aliasing resolve pass (TAAResolve.hlsl),   *)
(* of the history ping-pong of TemporalAA and of the helpers the resolve   *)
(* shader is built from.                                                   *)
(*                                                                         *)
(* Shader floats are modelled as exact rationals <<n, d>> (d > 0, lowest   *)
(* terms) extended with the IEEE specials a division by zero produces:     *)
(* <<1, 0>> is +INF, <<-1, 0>> is -INF and <<0, 0>> is NaN.  Comparisons   *)
(* with NaN are false and min/max return the operand that is not NaN, as   *)
(* Direct3D specifies.  Rounding of +, -, * and / is not modelled; sqrt,   *)
(* whose exact value is irrational, is rounded down to SqrtBits fractional *)
(* bits.  A colour written to a render target is converted to the format   *)
(* of the resource (TemporalAA::mFormat, 8-bit UNORM).                     *)
(***************************************************************************)
EXTENDS Integers, Sequences, FiniteSets, TLC

(***************************************************************************)
(* Bounds of the model.                                                    *)
(***************************************************************************)
\* precision of the modelled square root: results have SqrtBits fractional bits
SqrtBits == 6

\* the number of frames a behaviour of the frame loop resolves
MaxFrames == 3

(***************************************************************************)
(* Float arithmetic.                                                       *)
(***************************************************************************)
RECURSIVE GCD(_, _)
GCD(a, b) == IF b = 0 THEN a ELSE GCD(b, a % b)

IAbs(n) == IF n < 0 THEN -n ELSE n

ISign(n) == IF n < 0 THEN -1 ELSE IF n > 0 THEN 1 ELSE 0

\* the float n/d: lowest terms, positive denominator; d = 0 gives INF or NaN
Q(n, d) ==
    IF d = 0 THEN <<ISign(n), 0>>
    ELSE LET g == GCD(IAbs(n), IAbs(d))
         IN  IF d < 0 THEN <<(-n) \div g, (-d) \div g>> ELSE <<n \div g, d \div g>>

NaN == <<0, 0>>
PosInf == <<1, 0>>
NegInf == <<-1, 0>>
Zero == <<0, 1>>
One == <<1, 1>>
Half == <<1, 2>>

IsNaN(a) == a[2] = 0 /\ a[1] = 0
IsInf(a) == a[2] = 0 /\ a[1] # 0
IsFinite(a) == a[2] # 0

FNeg(a) == <<-a[1], a[2]>>

FAbs(a) == <<IAbs(a[1]), a[2]>>

\* exact sum; the common factor of the denominators is taken out first
FAdd(a, b) ==
    IF IsFinite(a) /\ IsFinite(b)
    THEN LET g == GCD(a[2], b[2])
         IN  Q(a[1] * (b[2] \div g) + b[1] * (a[2] \div g), (a[2] \div g) * b[2])
    ELSE IF IsNaN(a) \/ IsNaN(b) THEN NaN
    ELSE IF IsInf(a) /\ IsInf(b) THEN (IF a = b THEN a ELSE NaN)
    ELSE IF IsInf(a) THEN a ELSE b

FSub(a, b) == FAdd(a, FNeg(b))

\* exact product; 0 * INF is NaN
FMul(a, b) ==
    IF IsFinite(a) /\ IsFinite(b)
    THEN LET g1 == GCD(IAbs(a[1]), b[2])
             g2 == GCD(IAbs(b[1]), a[2])
         IN  Q((a[1] \div g1) * (b[1] \div g2), (a[2] \div g2) * (b[2] \div g1))
    ELSE IF IsNaN(a) \/ IsNaN(b) THEN NaN
    ELSE <<ISign(a[1]) * ISign(b[1]), 0>>

\* x / 0 is +INF or -INF by the sign of x, 0 / 0 and INF / INF are NaN
FDiv(a, b) ==
    IF IsNaN(a) \/ IsNaN(b) THEN NaN
    ELSE IF IsInf(a) THEN (IF IsInf(b) THEN NaN
                           ELSE <<a[1] * (IF b[1] < 0 THEN -1 ELSE 1), 0>>)
    ELSE IF IsInf(b) THEN Zero
    ELSE IF b[1] = 0 THEN <<ISign(a[1]), 0>>
    ELSE FMul(a, Q(b[2], b[1]))

\* n1/d1 < n2/d2 for positive denominators, by integer parts and then the
\* reciprocals of the fractional parts, so that no product is formed
RECURSIVE RatLt(_, _, _, _)
RatLt(n1, d1, n2, d2) ==
    IF n1 \div d1 # n2 \div d2 THEN n1 \div d1 < n2 \div d2
    ELSE IF n2 % d2 = 0 THEN FALSE
    ELSE IF n1 % d1 = 0 THEN TRUE
    ELSE RatLt(d2, n2 % d2, d1, n1 % d1)

\* ordered comparisons: false when an operand is NaN
FLt(a, b) ==
    IF IsNaN(a) \/ IsNaN(b) THEN FALSE
    ELSE IF IsInf(a) THEN a[1] < 0 /\ a # b
    ELSE IF IsInf(b) THEN b[1] > 0
    ELSE RatLt(a[1], a[2], b[1], b[2])

FGt(a, b) == FLt(b, a)

FLe(a, b) == ~IsNaN(a) /\ ~IsNaN(b) /\ ~FLt(b, a)

FGe(a, b) == FLe(b, a)

\* max and min return the other operand when one is NaN
FMax(a, b) == IF IsNaN(a) THEN b ELSE IF IsNaN(b) THEN a ELSE IF FLt(a, b) THEN b ELSE a

FMin(a, b) == IF IsNaN(a) THEN b ELSE IF IsNaN(b) THEN a ELSE IF FLt(b, a) THEN b ELSE a

FFloor(a) == <<a[1] \div a[2], 1>>

saturate(a) == IF IsNaN(a) THEN Zero ELSE FMin(FMax(a, Zero), One)

\* lerp(x, y, s) = x + s * (y - x)
lerp(x, y, s) == FAdd(x, FMul(s, FSub(y, x)))

\* <<q, r>> with n * m = q * d + r and 0 <= r < d, for n >= 0 and d > 0, by doubling m
RECURSIVE MulDiv(_, _, _)
MulDiv(n, m, d) ==
    IF m = 0 THEN <<0, 0>>
    ELSE IF m % 2 = 0
         THEN LET h == MulDiv(n, m \div 2, d)
              IN  <<2 * h[1] + (2 * h[2]) \div d, (2 * h[2]) % d>>
         ELSE LET h == MulDiv(n, m - 1, d)
              IN  <<h[1] + (h[2] + n) \div d, (h[2] + n) % d>>

\* the largest k in lo..hi with k * k <= x, by bisection
RECURSIVE ISqrtIn(_, _, _)
ISqrtIn(lo, hi, x) ==
    IF lo = hi THEN lo
    ELSE LET mid == (lo + hi + 1) \div 2
         IN  IF mid * mid <= x THEN ISqrtIn(mid, hi, x) ELSE ISqrtIn(lo, mid - 1, x)

\* no float the shader takes the root of reaches SqrtLimit
SqrtLimit == 2 ^ 15

SqrtScale == 2 ^ SqrtBits

\* sqrt of a finite a >= 0, rounded down to a multiple of 1/SqrtScale
FSqrt(a) ==
    LET x == MulDiv(a[1], SqrtScale * SqrtScale, a[2])[1]
    IN  Q(ISqrtIn(0, SqrtLimit, x), SqrtScale)

(***************************************************************************)
(* float2 and float3 values are tuples of floats; the operators below are  *)
(* the componentwise HLSL operators.                                       *)
(***************************************************************************)
V3(x, y, z) == <<x, y, z>>

V3Add(a, b) == <<FAdd(a[1], b[1]), FAdd(a[2], b[2]), FAdd(a[3], b[3])>>

V3Sub(a, b) == <<FSub(a[1], b[1]), FSub(a[2], b[2]), FSub(a[3], b[3])>>

V3Mul(a, b) == <<FMul(a[1], b[1]), FMul(a[2], b[2]), FMul(a[3], b[3])>>

V3Div(a, b) == <<FDiv(a[1], b[1]), FDiv(a[2], b[2]), FDiv(a[3], b[3])>>

V3Scale(s, a) == <<FMul(s, a[1]), FMul(s, a[2]), FMul(s, a[3])>>

V3DivS(a, s) == <<FDiv(a[1], s), FDiv(a[2], s), FDiv(a[3], s)>>

V3Abs(a) == <<FAbs(a[1]), FAbs(a[2]), FAbs(a[3])>>

V3Max(a, b) == <<FMax(a[1], b[1]), FMax(a[2], b[2]), FMax(a[3], b[3])>>

V3Min(a, b) == <<FMin(a[1], b[1]), FMin(a[2], b[2]), FMin(a[3], b[3])>>

V3Lerp(a, b, s) == <<lerp(a[1], b[1], s), lerp(a[2], b[2], s), lerp(a[3], b[3], s)>>

dot(a, b) == FAdd(FAdd(FMul(a[1], b[1]), FMul(a[2], b[2])), FMul(a[3], b[3]))

(***************************************************************************)
(* TAAResolve.hlsl: colour space conversion and history clipping.          *)
(***************************************************************************)
RGBToYCoCg(rgb) ==
    LET Y  == dot(rgb, V3(Q(1, 4), Q(1, 2), Q(1, 4)))
        Co == dot(rgb, V3(Q(1, 2), Zero, Q(-1, 2)))
        Cg == dot(rgb, V3(Q(-1, 4), Q(1, 2), Q(-1, 4)))
    IN  V3(Y, Co, Cg)

\* the inverse with the sign of Cg in the red channel wrong
YCoCgToRGBRedSign(ycocg) ==
    LET Y  == ycocg[1]
        Co == ycocg[2]
        Cg == ycocg[3]
    IN  V3(FAdd(FAdd(Y, Co), Cg), FAdd(Y, Cg), FSub(FSub(Y, Co), Cg))

YCoCgToRGB(ycocg) ==
    LET Y  == ycocg[1]
        Co == ycocg[2]
        Cg == ycocg[3]
        r  == FSub(FAdd(Y, Co), Cg)
        g  == FAdd(Y, Cg)
        b  == FSub(FSub(Y, Co), Cg)
    IN  V3(r, g, b)

(***************************************************************************)
(* The same conversions in IEEE single precision. A float is an integer    *)
(* count of F32Unit-ths; every value the round trip of a colour of         *)
(* [0,1]^3 forms is below 2 and is such a count, and the products by 0.25  *)
(* and 0.5 are exact. Each sum is rounded to 24 significant bits, ties to  *)
(* even; dot sums its products from left to right.                         *)
(***************************************************************************)
F32Unit == 2 ^ 26

\* the spacing, in units, of the floats around a value of a units
RECURSIVE F32Step(_, _)
F32Step(a, step) == IF a < (2 ^ 24) * step THEN step ELSE F32Step(a, 2 * step)

RoundF32(v) ==
    LET a    == IAbs(v)
        step == F32Step(a, 1)
        q    == a \div step
        r    == a % step
        up   == 2 * r > step \/ (2 * r = step /\ q % 2 = 1)
    IN  ISign(v) * (IF up THEN q + 1 ELSE q) * step

F32Add(a, b) == RoundF32(a + b)

\* the float nearest to a component a of a colour of [0,1]^3, on the grid of the
\* floats of [1/2, 1]
ToF32(a) ==
    LET qr == MulDiv(a[1], 2 ^ 24, a[2])
    IN  4 * (qr[1] + (IF 2 * qr[2] >= a[2] THEN 1 ELSE 0))

RGBToYCoCgF32(rgb) ==
    LET Y  == F32Add(F32Add(rgb[1] \div 4, rgb[2] \div 2), rgb[3] \div 4)
        Co == F32Add(F32Add(rgb[1] \div 2, 0), -(rgb[3] \div 2))
        Cg == F32Add(F32Add(-(rgb[1] \div 4), rgb[2] \div 2), -(rgb[3] \div 4))
    IN  <<Y, Co, Cg>>

YCoCgToRGBF32(ycocg) ==
    LET Y  == ycocg[1]
        Co == ycocg[2]
        Cg == ycocg[3]
        r  == F32Add(F32Add(Y, Co), -Cg)
        g  == F32Add(Y, Cg)
        b  == F32Add(F32Add(Y, -Co), -Cg)
    IN  <<r, g, b>>

\* a test that does not hold for NaN written as the negation of one that does
ClipTestNegated(maxUnit) == ~FLe(maxUnit, One)

\* the comparison the wrong way round
ClipTestInverted(maxUnit) == FLt(maxUnit, One)

\* a test that lets the history leave the box by up to its own size
ClipTestLoose(maxUnit) == FGt(maxUnit, Q(2, 1))

\* the test that decides whether the history is moved: maxUnit > 1.0
ClipTest(maxUnit) == FGt(maxUnit, One)

\* the largest component, without abs
MaxUnitSigned(v_unit) == FMax(v_unit[1], FMax(v_unit[2], v_unit[3]))

\* maxUnit = max(abs_unit.x, max(abs_unit.y, abs_unit.z))
MaxUnit(v_unit) ==
    LET absUnit == V3Abs(v_unit)
    IN  FMax(absUnit[1], FMax(absUnit[2], absUnit[3]))

\* a clip that moves every outside point to the centre of the box
ClipAABBToCenter(aabbMin, aabbMax, prevColor, currColor) ==
    IF ClipTest(MaxUnit(V3Div(V3Sub(prevColor, V3Scale(Half, V3Add(aabbMax, aabbMin))),
                              V3Scale(Half, V3Sub(aabbMax, aabbMin)))))
    THEN V3Scale(Half, V3Add(aabbMax, aabbMin))
    ELSE prevColor

ClipAABB(aabbMin, aabbMax, prevColor, currColor) ==
    LET center  == V3Scale(Half, V3Add(aabbMax, aabbMin))
        extents == V3Scale(Half, V3Sub(aabbMax, aabbMin))
        offset  == V3Sub(prevColor, center)
        v_unit  == V3Div(offset, extents)
        maxUnit == MaxUnit(v_unit)
    IN  IF ClipTest(maxUnit)
        THEN V3Add(center, V3DivS(offset, maxUnit))
        ELSE prevColor

length2(v) == FSqrt(FAdd(FMul(v[1], v[1]), FMul(v[2], v[2])))

length3(v) == FSqrt(FAdd(FAdd(FMul(v[1], v[1]), FMul(v[2], v[2])), FMul(v[3], v[3])))

(***************************************************************************)
(* Textures and samplers.  A texture is a record of its width w, its       *)
(* height h and its texels t, a function from the pixels <<x, y>>; texture *)
(* coordinates are float2 with the centre of pixel <<x, y>> at             *)
(* ((x + 1/2) / w, (y + 1/2) / h).                                         *)
(***************************************************************************)
PixelsOf(size) == (0 .. size[1] - 1) \X (0 .. size[2] - 1)

\* pin.TexC of the invocation that shades pixel p of a target of the given size
TexC(p, size) == <<Q(2 * p[1] + 1, 2 * size[1]), Q(2 * p[2] + 1, 2 * size[2])>>

ClampI(i, n) == IF i < 0 THEN 0 ELSE IF i > n - 1 THEN n - 1 ELSE i

\* gsamPointClamp: the texel that contains uv, addresses clamped to the edge
SamplePoint(tex, uv) ==
    tex.t[<<ClampI(FFloor(FMul(uv[1], Q(tex.w, 1)))[1], tex.w),
            ClampI(FFloor(FMul(uv[2], Q(tex.h, 1)))[1], tex.h)>>]

\* the four texels around texel position <<ix + fx, iy + fy>> and their bilinear weights
BilinearTaps(tex, ix, iy, fx, fy) ==
    << <<(<<ClampI(ix, tex.w), ClampI(iy, tex.h)>>), FMul(FSub(One, fx), FSub(One, fy))>>,
       <<(<<ClampI(ix + 1, tex.w), ClampI(iy, tex.h)>>), FMul(fx, FSub(One, fy))>>,
       <<(<<ClampI(ix, tex.w), ClampI(iy + 1, tex.h)>>), FMul(FSub(One, fx), fy)>>,
       <<(<<ClampI(ix + 1, tex.w), ClampI(iy + 1, tex.h)>>), FMul(fx, fy)>> >>

\* the taps for a position <<px, py>> counted in texels from the centre of texel <<0, 0>>
TexelTaps(tex, px, py) ==
    BilinearTaps(tex, FFloor(px)[1], FFloor(py)[1], FSub(px, FFloor(px)), FSub(py, FFloor(py)))

\* gsamLinearClamp: the four texels around uv and their bilinear weights
LinearTaps(tex, uv) ==
    TexelTaps(tex, FSub(FMul(uv[1], Q(tex.w, 1)), Half), FSub(FMul(uv[2], Q(tex.h, 1)), Half))

WeightedSum(tex, k) ==
    V3Add(V3Add(V3Scale(k[1][2], tex.t[k[1][1]]), V3Scale(k[2][2], tex.t[k[2][1]])),
          V3Add(V3Scale(k[3][2], tex.t[k[3][1]]), V3Scale(k[4][2], tex.t[k[4][1]])))

WeightedSumR(tex, k) ==
    FAdd(FAdd(FMul(k[1][2], tex.t[k[1][1]]), FMul(k[2][2], tex.t[k[2][1]])),
         FAdd(FMul(k[3][2], tex.t[k[3][1]]), FMul(k[4][2], tex.t[k[4][1]])))

\* a float3 texture through the linear sampler
SampleLinear(tex, uv) == WeightedSum(tex, LinearTaps(tex, uv))

\* the .r channel of a one-channel texture through the linear sampler
SampleLinearR(tex, uv) == WeightedSumR(tex, LinearTaps(tex, uv))

(***************************************************************************)
(* SampleTextureCatmullRom: 9 bilinear taps of a 4x4 Catmull-Rom filter.   *)
(***************************************************************************)
\* the four Catmull-Rom weights w0..w3 of fractional offset f on one axis
CatmullRomWeights(f) ==
    <<FMul(f, FAdd(Q(-1, 2), FMul(f, FSub(One, FMul(Half, f))))),
      FAdd(One, FMul(FMul(f, f), FAdd(Q(-5, 2), FMul(Q(3, 2), f)))),
      FMul(f, FAdd(Half, FMul(f, FSub(Q(2, 1), FMul(Q(3, 2), f))))),
      FMul(FMul(f, f), FAdd(Q(-1, 2), FMul(Half, f)))>>

\* the middle tap placed half way between the two middle texels
CatmullRomTapsMidway(texPos1, f, w) ==
    [f   |-> f,
     w   |-> w,
     pos |-> <<FSub(texPos1, One), FAdd(texPos1, Half), FAdd(texPos1, Q(2, 1))>>,
     wt  |-> <<w[1], FAdd(w[2], w[3]), w[4]>>]

\* per axis: the fractional offset f, the weights w = <<w0, w1, w2, w3>>, and the
\* positions <<texPos0, texPos12, texPos3>> (in texels) and weights <<w0, w12, w3>> of
\* the three taps
CatmullRomTaps(texPos1, f, w) ==
    [f   |-> f,
     w   |-> w,
     pos |-> <<FSub(texPos1, One), FAdd(texPos1, FDiv(w[3], FAdd(w[2], w[3]))),
               FAdd(texPos1, Q(2, 1))>>,
     wt  |-> <<w[1], FAdd(w[2], w[3]), w[4]>>]

CatmullRomAt(samplePos, texPos1) ==
    CatmullRomTaps(texPos1, FSub(samplePos, texPos1), CatmullRomWeights(FSub(samplePos, texPos1)))

\* the centre texel taken without the half-texel shift
CatmullRomAxisNoShift(samplePos) == CatmullRomAt(samplePos, FFloor(samplePos))

\* texPos1 = floor(samplePos - 0.5) + 0.5
CatmullRomAxis(samplePos) ==
    CatmullRomAt(samplePos, FAdd(FFloor(FSub(samplePos, Half)), Half))

\* the nine weighted taps for the axis data ax and ay, summed row by row
CatmullRomNine(tex, texSize, ax, ay) ==
    LET tap(i, j) ==
            V3Scale(ay.wt[j], V3Scale(ax.wt[i],
                SampleLinear(tex, <<FDiv(ax.pos[i], texSize[1]), FDiv(ay.pos[j], texSize[2])>>)))
        row(j) == V3Add(V3Add(tap(1, j), tap(2, j)), tap(3, j))
    IN  V3Add(V3Add(row(1), row(2)), row(3))

\* return max(result, 0.0)
CatmullRomSum(tex, texSize, ax, ay) ==
    V3Max(CatmullRomNine(tex, texSize, ax, ay), V3(Zero, Zero, Zero))

SampleTextureCatmullRom(tex, uv, texSize) ==
    CatmullRomSum(tex, texSize, CatmullRomAxis(FMul(uv[1], texSize[1])),
                  CatmullRomAxis(FMul(uv[2], texSize[2])))

(***************************************************************************)
(* TAAResolve.hlsl, PS: the steps of the resolve pixel shader.             *)
(***************************************************************************)
\* the eight neighbours in the order the loops visit them (y outer, x inner)
Offsets ==
    << <<-1, -1>>, <<0, -1>>, <<1, -1>>, <<-1, 0>>, <<1, 0>>, <<-1, 1>>, <<0, 1>>, <<1, 1>> >>

\* texCoord + float2(x, y) * texelSize, with texelSize = 1.0 / screenSize
NeighborCoord(texCoord, o, screenSize) ==
    <<FAdd(texCoord[1], FMul(Q(o[1], 1), FDiv(One, screenSize[1]))),
      FAdd(texCoord[2], FMul(Q(o[2], 1), FDiv(One, screenSize[2])))>>

\* a test that prefers the shorter neighbour
DilateTestShorter(neighborLength, maxVelocityLength) == FLt(neighborLength, maxVelocityLength)

\* the test that lets a neighbour's velocity replace the one selected so far
DilateTest(neighborLength, maxVelocityLength) == FGt(neighborLength, maxVelocityLength)

RECURSIVE DilateFrom(_, _, _, _, _, _)
DilateFrom(i, mv, texCoord, screenSize, velocity, maxVelocityLength) ==
    IF i > Len(Offsets) THEN velocity
    ELSE LET neighborVelocity ==
                 SamplePoint(mv, NeighborCoord(texCoord, Offsets[i], screenSize))
             neighborLength   == length2(neighborVelocity)
         IN  IF DilateTest(neighborLength, maxVelocityLength)
             THEN DilateFrom(i + 1, mv, texCoord, screenSize, neighborVelocity,
                             neighborLength)
             ELSE DilateFrom(i + 1, mv, texCoord, screenSize, velocity, maxVelocityLength)

\* velocity dilation: the 3x3 max filter over the motion vectors
DilatedVelocity(mv, texCoord, screenSize) ==
    LET velocity == SamplePoint(mv, texCoord)
    IN  DilateFrom(1, mv, texCoord, screenSize, velocity, length2(velocity))

HistoryTexCoord(texCoord, velocity) ==
    <<FSub(texCoord[1], velocity[1]), FSub(texCoord[2], velocity[2])>>

\* only the lower bounds tested
ValidHistoryLowerOnly(historyTexCoord) ==
    FGe(historyTexCoord[1], Zero) /\ FGe(historyTexCoord[2], Zero)

ValidHistory(historyTexCoord) ==
    /\ FGe(historyTexCoord[1], Zero) /\ FGe(historyTexCoord[2], Zero)
    /\ FLe(historyTexCoord[1], One) /\ FLe(historyTexCoord[2], One)

\* depth-based disocclusion test
Disoccluded(depthDiff) == FGt(depthDiff, Q(1, 100))

RECURSIVE StatsFrom(_, _, _, _, _)
StatsFrom(i, cur, texCoord, screenSize, acc) ==
    IF i > Len(Offsets) THEN acc
    ELSE LET neighborColor ==
                 SamplePoint(cur, NeighborCoord(texCoord, Offsets[i], screenSize))
         IN  StatsFrom(i + 1, cur, texCoord, screenSize,
                 [colorMin    |-> V3Min(acc.colorMin, neighborColor),
                  colorMax    |-> V3Max(acc.colorMax, neighborColor),
                  colorSum    |-> V3Add(acc.colorSum, neighborColor),
                  colorSum2   |-> V3Add(acc.colorSum2, V3Mul(neighborColor, neighborColor)),
                  sampleCount |-> FAdd(acc.sampleCount, One)])

\* the centre sample left out of sampleCount
NeighborhoodStatsCountFromZero(cur, texCoord, screenSize) ==
    LET currentColor == SamplePoint(cur, texCoord)
    IN  StatsFrom(1, cur, texCoord, screenSize,
            [colorMin    |-> currentColor,
             colorMax    |-> currentColor,
             colorSum    |-> currentColor,
             colorSum2   |-> V3Mul(currentColor, currentColor),
             sampleCount |-> Zero])

\* min, max, sum and sum of squares over the 3x3 neighbourhood of the current frame
NeighborhoodStats(cur, texCoord, screenSize) ==
    LET currentColor == SamplePoint(cur, texCoord)
    IN  StatsFrom(1, cur, texCoord, screenSize,
            [colorMin    |-> currentColor,
             colorMax    |-> currentColor,
             colorSum    |-> currentColor,
             colorSum2   |-> V3Mul(currentColor, currentColor),
             sampleCount |-> One])

ColorAvg(st) == V3DivS(st.colorSum, st.sampleCount)

ColorVar(st) ==
    V3Sub(V3DivS(st.colorSum2, st.sampleCount), V3Mul(ColorAvg(st), ColorAvg(st)))

\* the standard deviation with a clip factor of two
ColorStdDevTwice(colorVar) ==
    LET v == V3Max(colorVar, V3(Zero, Zero, Zero))
    IN  V3(FMul(Q(2, 1), FSqrt(v[1])), FMul(Q(2, 1), FSqrt(v[2])), FMul(Q(2, 1), FSqrt(v[3])))

ColorStdDev(colorVar) ==
    LET v == V3Max(colorVar, V3(Zero, Zero, Zero))
    IN  V3(FSqrt(v[1]), FSqrt(v[2]), FSqrt(v[3]))

\* the motion step without saturate
MotionBlendUnsaturated(adaptiveBlend, motionLength) ==
    lerp(adaptiveBlend, Q(1, 2), FDiv(motionLength, Q(40, 1)))

\* more of the current frame for fast motion
MotionBlend(adaptiveBlend, motionLength) ==
    lerp(adaptiveBlend, Q(1, 2), saturate(FDiv(motionLength, Q(40, 1))))

\* the adjustment for high variance areas
VarianceBlend(adaptiveBlend, variance) ==
    lerp(adaptiveBlend, Q(3, 10), saturate(FMul(variance, Q(10, 1))))

\* min where the shader has max
DisocclusionBlendMin(adaptiveBlend, disoccluded) ==
    IF disoccluded THEN FMin(adaptiveBlend, Q(4, 5)) ELSE adaptiveBlend

\* the forced factor for disoccluded pixels
DisocclusionBlend(adaptiveBlend, disoccluded) ==
    IF disoccluded THEN FMax(adaptiveBlend, Q(4, 5)) ELSE adaptiveBlend

AdaptiveBlend(blendFactor, motionLength, variance, disoccluded) ==
    DisocclusionBlend(VarianceBlend(MotionBlend(blendFactor, motionLength), variance),
                      disoccluded)

TemporalBlend(historyColor, currentColor, adaptiveBlend) ==
    V3Lerp(historyColor, currentColor, adaptiveBlend)

\* unsharp mask against the neighbourhood mean, then the clamp to non-negative
\* the unsharp mask and the 50/50 blend, before the clamp
Unsharp(finalColor, colorAvg) ==
    V3Lerp(finalColor, V3Add(finalColor, V3Scale(Q(1, 4), V3Sub(finalColor, colorAvg))), Half)

\* the sharpening pass without its final clamp
SharpenUnclamped(finalColor, colorAvg) == Unsharp(finalColor, colorAvg)

Sharpen(finalColor, colorAvg) ==
    LET sharpenAmount == Q(1, 4)
        sharpened     == V3Add(finalColor, V3Scale(sharpenAmount, V3Sub(finalColor, colorAvg)))
    IN  V3Max(V3Lerp(finalColor, sharpened, Half), V3(Zero, Zero, Zero))

NotComputed == "not computed"

\* the colours PS computes once the history is clipped and blended
Resolved(boxMin, boxMax, historyColor, finalColor, colorAvg) ==
    [boxMin |-> boxMin, boxMax |-> boxMax, historyColor |-> historyColor,
     blended |-> finalColor, result |-> Sharpen(finalColor, colorAvg)]

\* the temporal blend of the clipped history
Clipped(currentColor, colorAvg, adaptiveBlend, boxMin, boxMax, historyColor) ==
    Resolved(boxMin, boxMax, historyColor,
             TemporalBlend(historyColor, currentColor, adaptiveBlend), colorAvg)

\* the clip of the history sample, in YCoCg, to the box
Boxed(currentColor, historySample, colorAvg, adaptiveBlend, boxMin, boxMax) ==
    Clipped(currentColor, colorAvg, adaptiveBlend, boxMin, boxMax,
            YCoCgToRGB(ClipAABB(RGBToYCoCg(boxMin), RGBToYCoCg(boxMax),
                                RGBToYCoCg(historySample), RGBToYCoCg(currentColor))))

\* the colour part of PS once the statistics and the blend factor are known:
\* variance box, clip in YCoCg, temporal blend, sharpen and clamp
ResolveColor(currentColor, historySample, colorAvg, colorStdDev, adaptiveBlend) ==
    Boxed(currentColor, historySample, colorAvg, adaptiveBlend,
          V3Sub(colorAvg, colorStdDev), V3Add(colorAvg, colorStdDev))

\* the locals of an invocation that took the valid-history path
PSLocals(velocity, historyTexCoord, historySample, depthDiff, colorAvg, colorVar, adaptiveBlend, rc) ==
    [velocity |-> velocity, historyTexCoord |-> historyTexCoord,
     validHistory |-> TRUE, historySample |-> historySample,
     depthDiff |-> depthDiff, disoccluded |-> Disoccluded(depthDiff),
     colorAvg |-> colorAvg, colorVar |-> colorVar,
     boxMin |-> rc.boxMin, boxMax |-> rc.boxMax,
     historyColor |-> rc.historyColor, adaptiveBlend |-> adaptiveBlend,
     blended |-> rc.blended, result |-> rc.result]

\* PS from the adaptive blend factor on
PSBlended(currentColor, velocity, historyTexCoord, historySample, depthDiff, colorAvg, colorVar, adaptiveBlend) ==
    PSLocals(velocity, historyTexCoord, historySample, depthDiff, colorAvg, colorVar,
             adaptiveBlend,
             ResolveColor(currentColor, historySample, colorAvg, ColorStdDev(colorVar),
                          adaptiveBlend))

\* PS from the mean and variance on
PSStats(currentColor, velocity, historyTexCoord, historySample, depthDiff, colorAvg, colorVar, motionLength, blendFactor) ==
    PSBlended(currentColor, velocity, historyTexCoord, historySample, depthDiff, colorAvg,
              colorVar,
              AdaptiveBlend(blendFactor, motionLength, length3(colorVar),
                            Disoccluded(depthDiff)))

\* PS on the valid-history path, from the history sample, the depth difference and
\* the neighbourhood sums on
PSValid(currentColor, velocity, historyTexCoord, historySample, depthDiff, st, motionLength, blendFactor) ==
    PSStats(currentColor, velocity, historyTexCoord, historySample, depthDiff,
            ColorAvg(st), ColorVar(st), motionLength, blendFactor)

\* PS from the reprojected coordinate on: the early return, or the valid-history path
PSReprojected(cur, hist, depth, screenSize, blendFactor, texCoord, velocity, historyTexCoord) ==
    IF ~ValidHistory(historyTexCoord)
    THEN [velocity |-> velocity, historyTexCoord |-> historyTexCoord,
          validHistory |-> FALSE, historySample |-> NotComputed,
          depthDiff |-> NotComputed, disoccluded |-> NotComputed,
          colorAvg |-> NotComputed, colorVar |-> NotComputed,
          boxMin |-> NotComputed, boxMax |-> NotComputed,
          historyColor |-> NotComputed, adaptiveBlend |-> NotComputed,
          blended |-> NotComputed,
          result |-> SamplePoint(cur, texCoord)]
    ELSE PSValid(SamplePoint(cur, texCoord), velocity, historyTexCoord,
                 SampleTextureCatmullRom(hist, historyTexCoord, screenSize),
                 FAbs(FSub(SamplePoint(depth, texCoord),
                           SampleLinearR(depth, historyTexCoord))),
                 NeighborhoodStats(cur, texCoord, screenSize),
                 length2(<<FMul(velocity[1], screenSize[1]),
                           FMul(velocity[2], screenSize[2])>>),
                 blendFactor)

\* PS from the dilated velocity on
PSDilated(cur, hist, depth, screenSize, blendFactor, texCoord, velocity) ==
    PSReprojected(cur, hist, depth, screenSize, blendFactor, texCoord, velocity,
                  HistoryTexCoord(texCoord, velocity))

\* PS at texture coordinate texCoord
PSAt(cur, hist, mv, depth, screenSize, blendFactor, texCoord) ==
    PSDilated(cur, hist, depth, screenSize, blendFactor, texCoord,
              DilatedVelocity(mv, texCoord, screenSize))

\* one invocation of PS for pixel p: its locals and the colour it returns. Each local
\* is computed once and handed to the rest of the shader.
PS(cur, hist, mv, depth, screenSize, blendFactor, p) ==
    PSAt(cur, hist, mv, depth, screenSize, blendFactor, TexC(p, <<cur.w, cur.h>>))

\* the largest code of a channel of DXGI_FORMAT_R8G8B8A8_UNORM
UnormMax == 255

\* float to UNORM: clamp to [0,1], scale, round to nearest; NaN becomes 0
ToUnorm(a) ==
    LET s  == saturate(a)
        qr == MulDiv(s[1], UnormMax, s[2])
    IN  Q(qr[1] + (IF 2 * qr[2] >= s[2] THEN 1 ELSE 0), UnormMax)

\* the texel a render target of format mFormat holds after colour c is written to it
StoreTexel(c) == V3(ToUnorm(c[1]), ToUnorm(c[2]), ToUnorm(c[3]))

(***************************************************************************)
(* State.                                                                  *)
(***************************************************************************)
VARIABLES
    mWidth,          \* TemporalAA::mWidth
    mHeight,         \* TemporalAA::mHeight
    gCurrentFrame,   \* t0: the current frame's colour buffer
    gMotionVectors,  \* t2: the motion vector buffer
    gDepthMap,       \* t3: the depth buffer
    gBlendFactor,    \* cbTAA.gBlendFactor
    resource,        \* the contents of the two colour resources TemporalAA owns
    mTAAOutput,      \* TemporalAA::mTAAOutput: the resource the resolve renders to
    mHistoryBuffer,  \* TemporalAA::mHistoryBuffer: the resource bound as gHistoryFrame
    pending,         \* the pixels of the resolve draw whose PS invocation has not run
    ps,              \* for the pixels shaded so far this frame, the locals of PS
    frame,           \* the number of frames resolved and swapped so far
    reads,           \* the resources read as history by this frame's resolve so far
    writes,          \* the resources written by this frame's resolve so far
    lastWritten,     \* the resource the previous frame's resolve wrote
    call,            \* the arguments of a shader function called on its own
    ret,             \* <<v>> once that call has returned v
    fsr,             \* the fields of the FSR object
    app              \* the fields of the TerrainApp object and of its fence

frameVars ==
    <<mWidth, mHeight, gCurrentFrame, gMotionVectors, gDepthMap, gBlendFactor, resource,
      mTAAOutput, mHistoryBuffer, pending, ps, frame, reads, writes, lastWritten>>

vars == <<frameVars, call, ret, fsr, app>>

\* no FSR object has been constructed: the member initialisers of FSR.h
NoFSR ==
    [mOutputWidth |-> 0, mOutputHeight |-> 0, mRenderWidth |-> 0, mRenderHeight |-> 0,
     mQualityMode |-> "Quality", mSharpness |-> <<0, 1>>, mIntermediateBuffer |-> <<>>,
     handles |-> FALSE, views |-> "none"]

\* the number of frame resources the application cycles through
gNumFrameResources == 3

\* no TerrainApp has been initialised: the member initialisers, the fence at zero, the
\* material dirty in every frame resource, no frame resource written yet
NoApp ==
    [pc |-> "none", mCurrFrameResourceIndex |-> 0, Fence |-> [i \in 0 .. gNumFrameResources - 1 |-> 0],
     mCurrentFence |-> 0, completed |-> 0, NumFramesDirty |-> gNumFrameResources,
     MaterialBuffer |-> [i \in 0 .. gNumFrameResources - 1 |-> 0], updates |-> 0,
     inFlightWritten |-> FALSE]

\* cbTAA.gScreenSize: the size of the buffers, as the shader receives it
gScreenSize == <<Q(mWidth, 1), Q(mHeight, 1)>>

Pixels == PixelsOf(<<mWidth, mHeight>>)

(***************************************************************************)
(* The buffers a behaviour starts from.                                    *)
(***************************************************************************)
Black == V3(Zero, Zero, Zero)
Gray == V3(Q(2, 5), Q(2, 5), Q(2, 5))
White == V3(One, One, One)
Red == V3(One, Zero, Zero)
Cyan == V3(Zero, One, One)

\* a texture of the given size with texel function t
Texture(size, t) == [w |-> size[1], h |-> size[2], t |-> t]

Uniform(size, c) == Texture(size, [p \in PixelsOf(size) |-> c])

Checker(size, c1, c2) ==
    Texture(size, [p \in PixelsOf(size) |-> IF (p[1] + p[2]) % 2 = 0 THEN c1 ELSE c2])

Spot(size, q, c1, c2) == Texture(size, [p \in PixelsOf(size) |-> IF p = q THEN c1 ELSE c2])

\* pixel <<0, 0>> holds the mean of its own 3x3 neighbourhood, which is not uniform
MeanAtCorner(size) ==
    Texture(size, [p \in PixelsOf(size) |->
                      IF p = <<0, 0>> THEN Gray ELSE IF p = <<1, 0>> THEN White ELSE Black])

NoMotion == <<Zero, Zero>>

\* one pixel to the right, half a pixel down, a quarter pixel, off the screen
OnePixel(size) == <<Q(1, size[1]), Zero>>
HalfPixelDown(size) == <<Zero, Q(1, 2 * size[2])>>
QuarterPixel(size) == <<Q(1, 4 * size[1]), Q(1, 4 * size[2])>>
OffScreenUp == <<Zero, Q(-1, 1)>>

Resources == {"R0", "R1"}

\* no function is called on its own; nothing has returned
NoCall == [fn |-> "none"]

NoReturn == <<>>

FrameSizes == {<<2, 2>>}

FrameScenes ==
    UNION { [cur   : {Uniform(sz, Gray), Checker(sz, Black, White), MeanAtCorner(sz)},
             hist  : {Uniform(sz, Gray), Uniform(sz, Black)},
             mv    : {Uniform(sz, NoMotion), Spot(sz, <<0, 0>>, OnePixel(sz), NoMotion)},
             depth : {Uniform(sz, Half)},
             blend : {Q(1, 20)}] : sz \in FrameSizes }

(***************************************************************************)
(* The frame loop: the resolve draw shades every pixel, in any order, and  *)
(* the caller then swaps the two resources.                                *)
(***************************************************************************)
\* the state after construction, with the buffers of the first frame rendered
InitScene(sc, dispatch) ==
    /\ mWidth = sc.cur.w
    /\ mHeight = sc.cur.h
    /\ gCurrentFrame = sc.cur
    /\ gMotionVectors = sc.mv
    /\ gDepthMap = sc.depth
    /\ gBlendFactor = sc.blend
    /\ resource = [r \in Resources |-> sc.hist]
    /\ mTAAOutput = "R0"
    /\ mHistoryBuffer = "R1"
    /\ pending = dispatch
    /\ ps = <<>>
    /\ frame = 0
    /\ reads = {}
    /\ writes = {}
    /\ lastWritten = "none"

Init ==
    /\ \E sc \in FrameScenes : InitScene(sc, PixelsOf(<<sc.cur.w, sc.cur.h>>))
    /\ call = NoCall
    /\ ret = NoReturn
    /\ fsr = NoFSR
    /\ app = NoApp

\* a write of the colour to every pixel of the render target
WriteTargetAll(target, p, c) == [target EXCEPT !.t = [q \in DOMAIN target.t |-> c]]

\* the output merger: the colour PS returns for pixel p goes to texel p of the render target
WriteTarget(target, p, c) == [target EXCEPT !.t[p] = c]

\* the PS invocation of pixel p: reads the inputs and the history resource, writes
\* its own pixel of the render target
ResolvePixel(p) ==
    /\ p \in pending
    /\ \E out \in {PS(gCurrentFrame, resource[mHistoryBuffer], gMotionVectors, gDepthMap,
                      gScreenSize, gBlendFactor, p)} :
           /\ ps' = [q \in DOMAIN ps \cup {p} |-> IF q = p THEN out ELSE ps[q]]
           /\ resource' = [resource EXCEPT ![mTAAOutput] = WriteTarget(@, p, StoreTexel(out.result))]
    /\ pending' = pending \ {p}
    /\ reads' = reads \cup {mHistoryBuffer}
    /\ writes' = writes \cup {mTAAOutput}
    /\ UNCHANGED <<mWidth, mHeight, gCurrentFrame, gMotionVectors, gDepthMap, gBlendFactor,
                   mTAAOutput, mHistoryBuffer, frame, lastWritten, call, ret, fsr, app>>

\* a swap that leaves the roles as they are
SwapHandlesKept(out, hist) == <<out, hist>>

\* exchanges the roles of the two resources
SwapHandles(out, hist) == <<hist, out>>

\* TemporalAA::SwapBuffers, called once the resolve of the frame is complete
SwapBuffers ==
    /\ pending = {}
    /\ frame < MaxFrames
    /\ mTAAOutput' = SwapHandles(mTAAOutput, mHistoryBuffer)[1]
    /\ mHistoryBuffer' = SwapHandles(mTAAOutput, mHistoryBuffer)[2]
    /\ lastWritten' = mTAAOutput
    /\ frame' = frame + 1
    /\ pending' = Pixels
    /\ ps' = <<>>
    /\ reads' = {}
    /\ writes' = {}
    /\ UNCHANGED <<mWidth, mHeight, gCurrentFrame, gMotionVectors, gDepthMap, gBlendFactor,
                   resource, call, ret, fsr, app>>

Next ==
    \/ \E p \in Pixels : ResolvePixel(p)
    \/ SwapBuffers

Spec == Init /\ [][Next]_vars

(***************************************************************************)
(* One PS invocation on its own: the draw shades a single pixel of a frame *)
(* whose buffers are drawn from a wider family.                            *)
(***************************************************************************)
Colors(sz) ==
    {Uniform(sz, Gray), Checker(sz, Black, White), MeanAtCorner(sz), Spot(sz, <<0, 0>>, Red, Cyan)}

Motions(sz) ==
    {Uniform(sz, NoMotion), Spot(sz, <<0, 0>>, OnePixel(sz), NoMotion), Uniform(sz, OnePixel(sz)),
     Uniform(sz, QuarterPixel(sz)), Uniform(sz, HalfPixelDown(sz)), Uniform(sz, OffScreenUp)}

Depths(sz) ==
    {Uniform(sz, Half), Spot(sz, <<0, 0>>, Q(1, 10), Half), Spot(sz, <<0, 0>>, Q(49, 100), Half)}

PixelScenes ==
    [cur   : Colors(<<2, 2>>),
     hist  : Colors(<<2, 2>>) \cup {Uniform(<<2, 2>>, Black)},
     mv    : Motions(<<2, 2>>),
     depth : Depths(<<2, 2>>),
     blend : {Q(1, 20)}]
    \cup
    [cur   : {Checker(<<3, 3>>, Black, White), MeanAtCorner(<<3, 3>>)},
     hist  : {Uniform(<<3, 3>>, Gray), Checker(<<3, 3>>, Black, White), MeanAtCorner(<<3, 3>>)},
     mv    : {Uniform(<<3, 3>>, NoMotion), Spot(<<3, 3>>, <<0, 0>>, OnePixel(<<3, 3>>), NoMotion)},
     depth : {Uniform(<<3, 3>>, Half)},
     blend : {Q(1, 10)}]

InitPixel ==
    /\ \E sc \in PixelScenes : \E p \in PixelsOf(<<sc.cur.w, sc.cur.h>>) : InitScene(sc, {p})
    /\ call = NoCall
    /\ ret = NoReturn
    /\ fsr = NoFSR
    /\ app = NoApp

NextPixel == \E p \in Pixels : ResolvePixel(p)

SpecPixel == InitPixel /\ [][NextPixel]_vars

(***************************************************************************)
(* A static camera in front of a static scene: every frame renders the     *)
(* same current colours with zero motion and equal depth, and resolves     *)
(* against the output of the frame before.                                 *)
(***************************************************************************)
StaticFrames == 10

\* a darker texel among lighter ones
DarkSpot(size) == Spot(size, <<0, 0>>, V3(Q(1, 5), Q(1, 5), Q(1, 5)), V3(Q(3, 5), Q(3, 5), Q(3, 5)))

StaticScenes ==
    [cur   : {Uniform(<<2, 2>>, Gray), Checker(<<2, 2>>, Black, White), DarkSpot(<<2, 2>>)},
     hist  : {Uniform(<<2, 2>>, Black), Uniform(<<2, 2>>, White), DarkSpot(<<2, 2>>)},
     mv    : {Uniform(<<2, 2>>, NoMotion)},
     depth : {Uniform(<<2, 2>>, Half)},
     blend : {Q(1, 20)}]

InitStatic ==
    /\ \E sc \in StaticScenes : InitScene(sc, PixelsOf(<<sc.cur.w, sc.cur.h>>))
    /\ call = NoCall
    /\ ret = NoReturn
    /\ fsr = NoFSR
    /\ app = NoApp

\* the next frame of the static scene: the swap, then the same inputs again
SwapStatic ==
    /\ pending = {}
    /\ frame < StaticFrames
    /\ mTAAOutput' = SwapHandles(mTAAOutput, mHistoryBuffer)[1]
    /\ mHistoryBuffer' = SwapHandles(mTAAOutput, mHistoryBuffer)[2]
    /\ lastWritten' = mTAAOutput
    /\ frame' = frame + 1
    /\ pending' = Pixels
    /\ ps' = <<>>
    /\ reads' = {}
    /\ writes' = {}
    /\ UNCHANGED <<mWidth, mHeight, gCurrentFrame, gMotionVectors, gDepthMap, gBlendFactor,
                   resource, call, ret, fsr, app>>

NextStatic ==
    \/ \E p \in Pixels : ResolvePixel(p)
    \/ SwapStatic

SpecStatic == InitStatic /\ [][NextStatic]_vars

(***************************************************************************)
(* A 4x4 checkerboard resolved against a uniform mid-gray history, one     *)
(* pixel at a time.                                                        *)
(***************************************************************************)
MidGray == V3(Half, Half, Half)

Light == V3(Q(3, 4), Q(3, 4), Q(3, 4))

Pale == V3(Q(17, 32), Q(17, 32), Q(17, 32))

Pink == V3(One, Q(5, 8), Q(5, 8))

\* a checkerboard of square cells of the given width
Cells(size, cell, c1, c2) ==
    Texture(size, [p \in PixelsOf(size) |->
                      IF ((p[1] \div cell) + (p[2] \div cell)) % 2 = 0 THEN c1 ELSE c2])

CheckerScenes ==
    [cur   : {Cells(<<4, 4>>, cell, c, White) : cell \in {1, 2}, c \in {Black, Light, Pale, Pink}},
     hist  : {Uniform(<<4, 4>>, MidGray)},
     mv    : {Uniform(<<4, 4>>, NoMotion)},
     depth : {Uniform(<<4, 4>>, Half)},
     blend : {Q(1, 20)}]

InitChecker ==
    /\ \E sc \in CheckerScenes : \E p \in PixelsOf(<<sc.cur.w, sc.cur.h>>) : InitScene(sc, {p})
    /\ call = NoCall
    /\ ret = NoReturn
    /\ fsr = NoFSR
    /\ app = NoApp

SpecChecker == InitChecker /\ [][NextPixel]_vars

(***************************************************************************)
(* One PS invocation on a non-negative current frame and a history, motion *)
(* and depth of either sign.                                               *)
(***************************************************************************)
Dim(v) == V3(Q(v, 1), Q(v, 1), Q(v, 1))

SignedScenes ==
    [cur   : {Uniform(<<2, 2>>, Gray), Checker(<<2, 2>>, Black, White),
              Spot(<<2, 2>>, <<0, 0>>, Dim(2), Black), Spot(<<2, 2>>, <<0, 0>>, Red, Cyan)},
     hist  : {Uniform(<<2, 2>>, Black), Uniform(<<2, 2>>, Dim(-1)),
              Checker(<<2, 2>>, Dim(-2), Dim(2)), Spot(<<2, 2>>, <<0, 0>>, Red, Dim(-1))},
     mv    : {Uniform(<<2, 2>>, NoMotion), Uniform(<<2, 2>>, QuarterPixel(<<2, 2>>)),
              Uniform(<<2, 2>>, <<Q(-1, 8), Q(-1, 8)>>), Uniform(<<2, 2>>, OffScreenUp)},
     depth : {Uniform(<<2, 2>>, Half), Spot(<<2, 2>>, <<0, 0>>, Q(-1, 1), Q(2, 1))},
     blend : {Q(1, 20)}]

InitSigned ==
    /\ \E sc \in SignedScenes : \E p \in PixelsOf(<<sc.cur.w, sc.cur.h>>) : InitScene(sc, {p})
    /\ call = NoCall
    /\ ret = NoReturn
    /\ fsr = NoFSR
    /\ app = NoApp

SpecSigned == InitSigned /\ [][NextPixel]_vars

(***************************************************************************)
(* One PS invocation on a 3x3 frame whose motion vectors differ from pixel *)
(* to pixel.                                                               *)
(***************************************************************************)
\* a motion that grows with the pixel's column and row
Shear(size) == Texture(size, [p \in PixelsOf(size) |-> <<Q(p[1], 8 * size[1]), Q(p[2], 8 * size[2])>>])

\* motions of one length and opposite directions
Opposed(size) == Checker(size, QuarterPixel(size), <<Q(-1, 4 * size[1]), Q(-1, 4 * size[2])>>)

DilateScenes ==
    [cur   : {Checker(<<3, 3>>, Black, White)},
     hist  : {Uniform(<<3, 3>>, Gray)},
     mv    : {Uniform(<<3, 3>>, NoMotion), Uniform(<<3, 3>>, QuarterPixel(<<3, 3>>)),
              Spot(<<3, 3>>, <<0, 0>>, OnePixel(<<3, 3>>), NoMotion),
              Spot(<<3, 3>>, <<1, 1>>, NoMotion, QuarterPixel(<<3, 3>>)),
              Spot(<<3, 3>>, <<2, 2>>, OffScreenUp, HalfPixelDown(<<3, 3>>)),
              Spot(<<3, 3>>, <<2, 0>>, <<Q(-1, 3), Zero>>, OnePixel(<<3, 3>>)),
              Shear(<<3, 3>>), Opposed(<<3, 3>>)},
     depth : {Uniform(<<3, 3>>, Half)},
     blend : {Q(1, 20)}]

InitDilate ==
    /\ \E sc \in DilateScenes : \E p \in PixelsOf(<<sc.cur.w, sc.cur.h>>) : InitScene(sc, {p})
    /\ call = NoCall
    /\ ret = NoReturn
    /\ fsr = NoFSR
    /\ app = NoApp

SpecDilate == InitDilate /\ [][NextPixel]_vars

(***************************************************************************)
(* The shader's functions called on their own. No frame is in progress.    *)
(***************************************************************************)
Unbound == "unbound"

NoFrame ==
    /\ mWidth = 0
    /\ mHeight = 0
    /\ gCurrentFrame = Unbound
    /\ gMotionVectors = Unbound
    /\ gDepthMap = Unbound
    /\ gBlendFactor = Unbound
    /\ resource = Unbound
    /\ mTAAOutput = Unbound
    /\ mHistoryBuffer = Unbound
    /\ pending = {}
    /\ ps = <<>>
    /\ frame = 0
    /\ reads = {}
    /\ writes = {}
    /\ lastWritten = "none"

\* ClipAABB on boxes whose half-extents are positive, zero or negative on each axis
BoxMins == {V3(x, y, z) : x \in {Zero, Q(1, 4)}, y \in {Zero, Q(1, 4)}, z \in {Zero, Q(1, 4)}}

BoxMaxs ==
    {V3(x, y, z) : x \in {Zero, Q(1, 4), One}, y \in {Zero, Q(1, 4), One},
                   z \in {Zero, Q(1, 4), One}}

ClipCoords == {Q(-1, 2), Q(1, 8), Q(1, 4), Q(2, 1)}

ClipPoints == {V3(x, y, z) : x \in ClipCoords, y \in ClipCoords, z \in ClipCoords}

InitClip ==
    /\ NoFrame
    /\ call \in [fn : {"ClipAABB"}, aabbMin : BoxMins, aabbMax : BoxMaxs,
                 prevColor : ClipPoints, currColor : {V3(Q(1, 8), Q(1, 8), Q(1, 8))}]
    /\ ret = NoReturn
    /\ fsr = NoFSR
    /\ app = NoApp

CallClipAABB ==
    /\ call.fn = "ClipAABB"
    /\ ret = NoReturn
    /\ ret' = <<ClipAABB(call.aabbMin, call.aabbMax, call.prevColor, call.currColor)>>
    /\ UNCHANGED <<frameVars, call, fsr, app>>

SpecClip == InitClip /\ [][CallClipAABB]_vars

\* the colour part of PS on given statistics
TailColors == {Black, Gray, White, Red, Cyan, V3(Q(1, 5), Half, Q(4, 5))}

TailStdDevs == {Black, V3(Q(1, 4), Q(1, 4), Q(1, 4))}

TailBlends == {Zero, Q(3, 100), Q(1, 10), Q(3, 10), Half, Q(4, 5), One}

InitTail ==
    /\ NoFrame
    /\ call \in [fn : {"ResolveColor"}, currentColor : TailColors, historySample : TailColors,
                 colorAvg : TailColors, colorStdDev : TailStdDevs, adaptiveBlend : TailBlends]
    /\ ret = NoReturn
    /\ fsr = NoFSR
    /\ app = NoApp

CallResolveColor ==
    /\ call.fn = "ResolveColor"
    /\ ret = NoReturn
    /\ ret' = <<ResolveColor(call.currentColor, call.historySample, call.colorAvg,
                              call.colorStdDev, call.adaptiveBlend)>>
    /\ UNCHANGED <<frameVars, call, fsr, app>>

SpecTail == InitTail /\ [][CallResolveColor]_vars

\* the colour space round trip
UnitCoords == {Zero, Q(1, 255), Q(1, 5), Q(1, 3), Half, Q(254, 255), One}

UnitColors == {V3(x, y, z) : x \in UnitCoords, y \in UnitCoords, z \in UnitCoords}

InitYCoCg ==
    /\ NoFrame
    /\ call \in [fn : {"YCoCg"}, rgb : UnitColors]
    /\ ret = NoReturn
    /\ fsr = NoFSR
    /\ app = NoApp

CallYCoCg ==
    /\ call.fn = "YCoCg"
    /\ ret = NoReturn
    /\ LET rgb32 == <<ToF32(call.rgb[1]), ToF32(call.rgb[2]), ToF32(call.rgb[3])>>
       IN  ret' = <<[ycocg |-> RGBToYCoCg(call.rgb),
                     rgb   |-> YCoCgToRGB(RGBToYCoCg(call.rgb)),
                     in32  |-> rgb32,
                     out32 |-> YCoCgToRGBF32(RGBToYCoCgF32(rgb32))]>>
    /\ UNCHANGED <<frameVars, call, fsr, app>>

SpecYCoCg == InitYCoCg /\ [][CallYCoCg]_vars

\* the adaptive blend factor
BaseBlends == {Q(3, 100), Q(1, 20), Q(1, 10)}

MotionLengths == {Zero, Q(4, 1), Q(20, 1), Q(40, 1), Q(80, 1)}

Variances == {Zero, Q(1, 100), Q(1, 20), Q(1, 10), One}

InitBlend ==
    /\ NoFrame
    /\ call \in [fn : {"AdaptiveBlend"}, blendFactor : BaseBlends, motionLength : MotionLengths,
                 variance : Variances, disoccluded : BOOLEAN]
    /\ ret = NoReturn
    /\ fsr = NoFSR
    /\ app = NoApp

CallAdaptiveBlend ==
    /\ call.fn = "AdaptiveBlend"
    /\ ret = NoReturn
    /\ ret' = <<AdaptiveBlend(call.blendFactor, call.motionLength, call.variance,
                               call.disoccluded)>>
    /\ UNCHANGED <<frameVars, call, fsr, app>>

SpecBlend == InitBlend /\ [][CallAdaptiveBlend]_vars

\* the Catmull-Rom history sample
SampledTextures ==
    {Uniform(<<2, 2>>, Gray), Checker(<<2, 2>>, Black, White), Spot(<<2, 2>>, <<0, 0>>, Red, Cyan),
     Checker(<<3, 3>>, Black, White), MeanAtCorner(<<3, 3>>)}

SampleCoords == {Zero, Q(1, 6), Q(1, 4), Q(3, 8), Half, Q(3, 4), Q(5, 6), One}

InitCatmullRom ==
    /\ NoFrame
    /\ call \in [fn : {"SampleTextureCatmullRom"}, tex : SampledTextures,
                 uv : SampleCoords \X SampleCoords]
    /\ ret = NoReturn
    /\ fsr = NoFSR
    /\ app = NoApp

CallCatmullRom ==
    /\ call.fn = "SampleTextureCatmullRom"
    /\ ret = NoReturn
    /\ LET texSize == <<Q(call.tex.w, 1), Q(call.tex.h, 1)>>
       IN  ret' = <<[value |-> SampleTextureCatmullRom(call.tex, call.uv, texSize),
                     nine  |-> CatmullRomNine(call.tex, texSize,
                                              CatmullRomAxis(FMul(call.uv[1], texSize[1])),
                                              CatmullRomAxis(FMul(call.uv[2], texSize[2]))),
                     x     |-> CatmullRomAxis(FMul(call.uv[1], texSize[1])),
                     y     |-> CatmullRomAxis(FMul(call.uv[2], texSize[2]))]>>
    /\ UNCHANGED <<frameVars, call, fsr, app>>

SpecCatmullRom == InitCatmullRom /\ [][CallCatmullRom]_vars

(***************************************************************************)
(* MotionVectors.hlsl: the vertex and pixel shader of the motion-vector    *)
(* pass. A float4 is <<x, y, z, w>>, a float4x4 is the tuple of its rows.   *)
(***************************************************************************)
dot4(a, b) == FAdd(FAdd(FMul(a[1], b[1]), FMul(a[2], b[2])), FAdd(FMul(a[3], b[3]), FMul(a[4], b[4])))

Column(M, j) == <<M[1][j], M[2][j], M[3][j], M[4][j]>>

\* mul(v, M): the row vector v times the matrix M
mul(v, M) == <<dot4(v, Column(M, 1)), dot4(v, Column(M, 2)), dot4(v, Column(M, 3)), dot4(v, Column(M, 4))>>

MatMul(A, B) == <<mul(A[1], B), mul(A[2], B), mul(A[3], B), mul(A[4], B)>>

\* the vertex shader with the current clip position taken from the jittered gViewProj
MotionVectorsVSJittered(PosL, world, viewProj, unjitteredViewProj, prevViewProj) ==
    LET posW == mul(<<PosL[1], PosL[2], PosL[3], One>>, world)
    IN  [PosH |-> mul(posW, viewProj), CurrPosH |-> mul(posW, viewProj),
         PrevPosH |-> mul(posW, prevViewProj)]

\* VS: world position, then the unjittered current, the jittered raster and the previous
\* clip-space positions
MotionVectorsVS(PosL, world, viewProj, unjitteredViewProj, prevViewProj) ==
    LET posW == mul(<<PosL[1], PosL[2], PosL[3], One>>, world)
    IN  [PosH |-> mul(posW, viewProj), CurrPosH |-> mul(posW, unjitteredViewProj),
         PrevPosH |-> mul(posW, prevViewProj)]

\* the perspective divide of the xy of a clip-space position
NDC(posH) == <<FDiv(posH[1], posH[4]), FDiv(posH[2], posH[4])>>

\* PS: velocity = (prevNDC - currNDC) * 0.5
MotionVectorsPS(pin) ==
    <<FMul(FSub(NDC(pin.PrevPosH)[1], NDC(pin.CurrPosH)[1]), Half),
      FMul(FSub(NDC(pin.PrevPosH)[2], NDC(pin.CurrPosH)[2]), Half)>>

\* the transforms of a draw call
Identity4 ==
    <<(<<One, Zero, Zero, Zero>>), (<<Zero, One, Zero, Zero>>), (<<Zero, Zero, One, Zero>>),
      (<<Zero, Zero, Zero, One>>)>>

Translation(t) ==
    <<(<<One, Zero, Zero, Zero>>), (<<Zero, One, Zero, Zero>>), (<<Zero, Zero, One, Zero>>),
      (<<t[1], t[2], t[3], One>>)>>

\* a projection with w = z
Perspective ==
    <<(<<One, Zero, Zero, Zero>>), (<<Zero, One, Zero, Zero>>), (<<Zero, Zero, One, One>>),
      (<<Zero, Zero, Q(-1, 2), Zero>>)>>

ViewProj(t) == MatMul(Translation(t), Perspective)

\* the projection offset by the jitter: x and y move by jitter * w
Jittered(M, jitter) ==
    MatMul(M, <<(<<One, Zero, Zero, Zero>>), (<<Zero, One, Zero, Zero>>),
                (<<Zero, Zero, One, Zero>>), (<<jitter[1], jitter[2], Zero, One>>)>>)

\* the pass constants of a frame with the given camera transforms and jitter offset
PassConstants(unjittered, prevUnjittered, jitter) ==
    [gViewProj |-> Jittered(unjittered, jitter), gUnjitteredViewProj |-> unjittered,
     gPrevViewProj |-> prevUnjittered, gJitterOffset |-> jitter]

\* the velocity the pass writes for a vertex
MotionVector(PosL, world, cb) ==
    MotionVectorsPS(MotionVectorsVS(PosL, world, cb.gViewProj, cb.gUnjitteredViewProj,
                                    cb.gPrevViewProj))

Vertices == {<<x, y, z>> : x \in {Q(-1, 2), Zero, Half}, y \in {Q(-1, 2), Zero, Half}, z \in {One, Q(2, 1)}}

Worlds == {Identity4, Translation(<<Q(1, 4), Zero, Zero>>)}

Cameras == {ViewProj(<<Zero, Zero, Zero>>), ViewProj(<<Q(1, 4), Zero, Zero>>),
            ViewProj(<<Zero, Q(-1, 4), One>>)}

Jitters == {<<Zero, Zero>>, <<Q(1, 8), Q(-1, 8)>>, <<Q(-1, 4), Q(1, 4)>>}

InitMotion ==
    /\ NoFrame
    /\ call \in [fn : {"MotionVectors"}, PosL : Vertices, gWorld : Worlds, camera : Cameras,
                 prevCamera : Cameras, jitter : Jitters]
    /\ ret = NoReturn
    /\ fsr = NoFSR
    /\ app = NoApp

CallMotionVectors ==
    /\ call.fn = "MotionVectors"
    /\ ret = NoReturn
    /\ \E cb \in {PassConstants(call.camera, call.prevCamera, call.jitter)} :
           \E pin \in {MotionVectorsVS(call.PosL, call.gWorld, cb.gViewProj,
                                        cb.gUnjitteredViewProj, cb.gPrevViewProj)} :
               ret' = <<[pin |-> pin, velocity |-> MotionVectorsPS(pin)]>>
    /\ UNCHANGED <<frameVars, call, fsr, app>>

SpecMotion == InitMotion /\ [][CallMotionVectors]_vars

(***************************************************************************)
(* FSR.cpp: the FSR object, its quality mode and its render resolution.    *)
(***************************************************************************)
QualityModes == {"UltraQuality", "Quality", "Balanced", "Performance"}

\* a float scale factor is written as its multiple of 2^-23
ScaleUnit == 2 ^ 23

\* a scale factor of one half for every mode
GetScaleFactorHalf(mode) == ScaleUnit \div 2

\* FSR::GetScaleFactor: 1.3f, 1.5f, 1.7f and 2.0f
GetScaleFactor(mode) ==
    CASE mode = "UltraQuality" -> 10905190
      [] mode = "Quality"      -> 12582912
      [] mode = "Balanced"     -> 14260634
      [] mode = "Performance"  -> 16777216
      [] OTHER                 -> 12582912

RECURSIVE Log2Floor(_)
Log2Floor(n) == IF n <= 1 THEN 0 ELSE 1 + Log2Floor(n \div 2)

\* (UINT)(size / scale) for the quotient floor q and remainder r of size * 2^23 by scale:
\* the float quotient is the nearest float, so it is q + 1 when the exact quotient is
\* within half a unit in the last place below q + 1, and the cast truncates
TruncatedQuotient(q, r, scale) ==
    IF r # 0 /\ q >= 1 /\ scale - r <= scale \div (2 ^ (24 - Log2Floor(q))) THEN q + 1 ELSE q

\* (UINT)(mOutputWidth / scale) with mOutputWidth converted to float (exact below 2^24)
FloatDivToUint(size, scale) ==
    TruncatedQuotient(MulDiv(size, ScaleUnit, scale)[1], MulDiv(size, ScaleUnit, scale)[2], scale)

UintMax(a, b) == IF a >= b THEN a ELSE b

\* a recalculation that leaves the render resolution as it was
CalculateRenderResolutionKept(f) == f

\* FSR::CalculateRenderResolution
CalculateRenderResolution(f) ==
    [f EXCEPT !.mRenderWidth = UintMax(FloatDivToUint(f.mOutputWidth, GetScaleFactor(f.mQualityMode)), 1),
              !.mRenderHeight = UintMax(FloatDivToUint(f.mOutputHeight, GetScaleFactor(f.mQualityMode)), 1)]

\* FSR::GetConstants
GetConstants(f) ==
    [Const0 |-> <<Q(f.mRenderWidth, f.mOutputWidth), Q(f.mRenderHeight, f.mOutputHeight),
                  FSub(FDiv(FMul(Half, Q(f.mRenderWidth, 1)), Q(f.mOutputWidth, 1)), Half),
                  FSub(FDiv(FMul(Half, Q(f.mRenderHeight, 1)), Q(f.mOutputHeight, 1)), Half)>>,
     Const1 |-> <<Q(1, f.mRenderWidth), Q(1, f.mRenderHeight),
                  Q(1, f.mOutputWidth), Q(1, f.mOutputHeight)>>,
     Const2 |-> <<Q(-1, f.mRenderWidth), Q(2, f.mRenderHeight),
                  Q(1, f.mRenderWidth), Q(2, f.mRenderHeight)>>,
     Const3 |-> <<Zero, Q(4, f.mRenderHeight), Zero, Zero>>,
     RCASSharpness |-> f.mSharpness]

\* FSR::BuildResource: a new intermediate buffer of the output size; the views created
\* before are views of the buffer it replaces
BuildResource(f) ==
    [f EXCEPT !.mIntermediateBuffer = <<f.mOutputWidth, f.mOutputHeight>>,
              !.views = IF f.views = "none" THEN "none" ELSE "stale"]

\* FSR::BuildDescriptors(): views of the current intermediate buffer, at the handles held
BuildViews(f) == [f EXCEPT !.views = IF f.handles THEN "current" ELSE "unbound"]

OutputWidths == {1, 2, 13, 17, 26, 100, 130, 170}

OutputHeights == {1, 13, 34, 90}

\* FSR::FSR
InitFSR ==
    /\ NoFrame
    /\ call = NoCall
    /\ ret = NoReturn
    /\ app = NoApp
    /\ \E w \in OutputWidths, h \in OutputHeights, quality \in QualityModes :
           fsr = BuildResource(CalculateRenderResolution(
                     [NoFSR EXCEPT !.mOutputWidth = w, !.mOutputHeight = h,
                                   !.mQualityMode = quality]))

\* FSR::SetQualityMode
SetQualityMode(mode) ==
    /\ fsr' = IF fsr.mQualityMode # mode
              THEN BuildResource(CalculateRenderResolution([fsr EXCEPT !.mQualityMode = mode]))
              ELSE fsr
    /\ UNCHANGED <<frameVars, call, ret, app>>

\* FSR::OnResize
OnResize(outputWidth, outputHeight) ==
    /\ fsr' = IF fsr.mOutputWidth # outputWidth \/ fsr.mOutputHeight # outputHeight
              THEN BuildViews(BuildResource(CalculateRenderResolution(
                       [fsr EXCEPT !.mOutputWidth = outputWidth, !.mOutputHeight = outputHeight])))
              ELSE fsr
    /\ UNCHANGED <<frameVars, call, ret, app>>

\* FSR::clamp
clamp(v, lo, hi) == IF FLt(v, lo) THEN lo ELSE IF FGt(v, hi) THEN hi ELSE v

\* the floats a caller passes to SetSharpness
SharpnessArgs == {NaN, NegInf, Q(-1, 1), Zero, Half, One, Q(2, 1), Q(5, 2), PosInf}

\* FSR::SetSharpness
SetSharpness(sharpness) ==
    /\ fsr' = [fsr EXCEPT !.mSharpness = clamp(sharpness, Zero, Q(2, 1))]
    /\ UNCHANGED <<frameVars, call, ret, app>>

\* FSR::BuildDescriptors(hCpuSrv, hGpuSrv, hCpuRtv)
BuildDescriptors ==
    /\ fsr' = BuildViews([fsr EXCEPT !.handles = TRUE])
    /\ UNCHANGED <<frameVars, call, ret, app>>

NextFSR ==
    \/ \E mode \in QualityModes : SetQualityMode(mode)
    \/ \E w \in OutputWidths \cup {0}, h \in OutputHeights \cup {0} : OnResize(w, h)
    \/ \E sharpness \in SharpnessArgs : SetSharpness(sharpness)
    \/ BuildDescriptors

SpecFSR == InitFSR /\ [][NextFSR]_vars

(***************************************************************************)
(* FSR.hlsl: RCAS, the sharpening pass.                                    *)
(***************************************************************************)
\* FsrLuma
FsrLuma(c) == dot(c, V3(Q(299, 1000), Q(587, 1000), Q(114, 1000)))

\* exp2 of a half-integer that is not positive: the square root of 2^(2x), rounded as FSqrt
exp2(x) == FSqrt(Q(1, 2 ^ ((-2 * x[1]) \div x[2])))

\* the lobe without its lower bound
RcasLobeUnbounded(lobeRGB, sharpness) == FMul(FMin(lobeRGB, Zero), exp2(FNeg(sharpness)))

\* float lobe = max(-0.1875, min(lobeRGB, 0.0)) * exp2(-sharpness)
RcasLobe(lobeRGB, sharpness) ==
    FMul(FMax(Q(-3, 16), FMin(lobeRGB, Zero)), exp2(FNeg(sharpness)))

\* hitMin, hitMax and lobeRGB of the ring minimum and maximum
RcasLobeRGB(mn, mx) ==
    FMax(FNeg(FDiv(mn, FMul(Q(4, 1), mx))),
         FDiv(FSub(One, mx), FAdd(FMul(Q(4, 1), mn), Q(1, 32768))))

\* the part of FsrRcasF after the five taps
RcasTaps(b, d, e, f, h, mn, mx, sharpness) ==
    [mn |-> mn, mx |-> mx, lobeRGB |-> RcasLobeRGB(mn, mx),
     lobe |-> RcasLobe(RcasLobeRGB(mn, mx), sharpness),
     denominator |-> FAdd(FMul(Q(4, 1), RcasLobe(RcasLobeRGB(mn, mx), sharpness)), One),
     result |-> V3Scale(FDiv(One, FAdd(FMul(Q(4, 1), RcasLobe(RcasLobeRGB(mn, mx), sharpness)), One)),
                        V3Add(V3Scale(RcasLobe(RcasLobeRGB(mn, mx), sharpness),
                                      V3Add(V3Add(b, d), V3Add(f, h))), e))]

RcasLuma(b, d, e, f, h, bL, dL, eL, fL, hL, sharpness) ==
    RcasTaps(b, d, e, f, h, FMin(FMin(bL, dL), FMin(eL, FMin(fL, hL))),
             FMax(FMax(bL, dL), FMax(eL, FMax(fL, hL))), sharpness)

RcasSampled(b, d, e, f, h, sharpness) ==
    RcasLuma(b, d, e, f, h, FsrLuma(b), FsrLuma(d), FsrLuma(e), FsrLuma(f), FsrLuma(h), sharpness)

\* FsrRcasF on the input texture, with Const1.zw the size of one of its texels
FsrRcasF(tex, ip, sharpness) ==
    RcasSampled(SampleLinear(tex, <<ip[1], FSub(ip[2], Q(1, tex.h))>>),
                SampleLinear(tex, <<FSub(ip[1], Q(1, tex.w)), ip[2]>>),
                SampleLinear(tex, ip),
                SampleLinear(tex, <<FAdd(ip[1], Q(1, tex.w)), ip[2]>>),
                SampleLinear(tex, <<ip[1], FAdd(ip[2], Q(1, tex.h))>>), sharpness)

Half3 == V3(Half, Half, Half)

Bright(v) == V3(Q(v, 1), Q(v, 1), Q(v, 1))

\* input textures of non-negative colours, dark and brighter than one
RcasTextures ==
    {Uniform(<<3, 3>>, Black), Uniform(<<3, 3>>, Bright(8)), Checker(<<3, 3>>, Black, White),
     Checker(<<3, 3>>, Bright(2), Bright(4)), Checker(<<3, 3>>, Red, Bright(2)),
     Spot(<<3, 3>>, <<1, 1>>, Bright(16), Half3), Spot(<<3, 3>>, <<0, 0>>, Cyan, Bright(4))}

\* RCASSharpness, which FSR::SetSharpness keeps in [0, 2]
Sharpnesses == {Zero, Half, One, Q(3, 2), Q(2, 1)}

InitRcas ==
    /\ NoFrame
    /\ call \in [fn : {"FsrRcasF"}, tex : RcasTextures, p : PixelsOf(<<3, 3>>),
                 sharpness : Sharpnesses]
    /\ ret = NoReturn
    /\ fsr = NoFSR
    /\ app = NoApp

\* PS_RCAS
CallRcas ==
    /\ call.fn = "FsrRcasF"
    /\ ret = NoReturn
    /\ ret' = <<FsrRcasF(call.tex, TexC(call.p, <<call.tex.w, call.tex.h>>), call.sharpness)>>
    /\ UNCHANGED <<frameVars, call, fsr, app>>

SpecRcas == InitRcas /\ [][CallRcas]_vars

(***************************************************************************)
(* FSR.hlsl: EASU, the upscaling pass.                                     *)
(***************************************************************************)
rsqrt(x) == FDiv(One, FSqrt(x))

\* FsrEasuCF((fp + float2(ox / 2, oy / 2)) * con1.xy)
EasuTap(tex, fp, ox, oy, con1) ==
    SampleLinear(tex, <<FMul(FAdd(fp[1], Q(ox, 2)), con1[1]), FMul(FAdd(fp[2], Q(oy, 2)), con1[2])>>)

\* the edge-aware sample returned in place of the bilinear blend
EasuResultEdgeAware(C, aC, pp) == aC

\* float3 result = lerp(lerp(jC, fC, pp.x), lerp(lC, hC, pp.x), pp.y)
EasuResult(C, aC, pp) == V3Lerp(V3Lerp(C.j, C.f, pp[1]), V3Lerp(C.l, C.h, pp[1]), pp[2])

\* FsrEasuF from the edge-aware sample aC on
EasuSampled(fp, pp, C, lenX, lenY, dir, stretch, tc, aC) ==
    [fp |-> fp, pp |-> pp, taps |-> C, lenX |-> lenX, lenY |-> lenY, dir |-> dir,
     stretch |-> stretch, tc |-> tc, aC |-> aC, result |-> EasuResult(C, aC, pp)]

\* FsrEasuF from the coordinate tc of the edge-aware sample on
EasuAimed(tex, fp, pp, C, lenX, lenY, dir, stretch, tc) ==
    EasuSampled(fp, pp, C, lenX, lenY, dir, stretch, tc, SampleLinear(tex, tc))

\* FsrEasuF from the stretch on: lob = 0.5 - 0.25 * (1.0 / 4.0), clp = 1.0 / lob
EasuStretched(tex, fp, pp, con1, C, lenX, lenY, dir, stretch) ==
    EasuAimed(tex, fp, pp, C, lenX, lenY, dir, stretch,
              <<FMul(FAdd(FAdd(fp[1], Half),
                          FMul(FMul(dir[1], FDiv(One, Q(7, 16))), FSub(pp[1], Half))), con1[1]),
                FMul(FAdd(FAdd(fp[2], Half),
                          FMul(FMul(dir[2], FDiv(One, Q(7, 16))), FSub(pp[1], Half))), con1[2])>>)

\* FsrEasuF from the normalised direction on
EasuNormalised(tex, fp, pp, con1, C, lenX, lenY, dir) ==
    EasuStretched(tex, fp, pp, con1, C, lenX, lenY, dir,
                  FDiv(FAdd(FMul(FAbs(dir[1]), lenX), FMul(FAbs(dir[2]), lenY)),
                       FMax(FAdd(lenX, lenY), Q(1, 32768))))

\* zro, rsqrt and the normalisation of dir
EasuNormalise(dx, dy, dirR) ==
    IF FLt(dirR, Q(1, 32768)) THEN <<One, dy>>
    ELSE <<FMul(dx, rsqrt(dirR)), FMul(dy, rsqrt(dirR))>>

\* FsrEasuF from the edge lengths and the direction on
EasuDirected(tex, fp, pp, con1, C, lenX, lenY, dx, dy) ==
    EasuNormalised(tex, fp, pp, con1, C, lenX, lenY,
                   EasuNormalise(dx, dy, FAdd(FMul(dx, dx), FMul(dy, dy))))

FMax6(a, b, c, d, e, f) == FMax(a, FMax(b, FMax(c, FMax(d, FMax(e, f)))))

\* FsrEasuF from the lumas L of the twelve taps on: lenX, lenY, dir
EasuLumas(tex, fp, pp, con1, C, L) ==
    EasuDirected(tex, fp, pp, con1, C,
                 FMax6(FAbs(FSub(L.f, L.e)), FAbs(FSub(L.g, L.f)), FAbs(FSub(L.j, L.i)),
                       FAbs(FSub(L.k, L.j)), FAbs(FSub(L.l, L.k)), FAbs(FSub(L.h, L.g))),
                 FMax6(FAbs(FSub(L.b, L.c)), FAbs(FSub(L.i, L.b)), FAbs(FSub(L.j, L.c)),
                       FAbs(FSub(L.o, L.l)), FAbs(FSub(L.n, L.h)), FAbs(FSub(L.k, L.i))),
                 FSub(L.l, L.j), FSub(L.k, L.l))

\* FsrEasuF from the twelve taps on
EasuTaps(tex, fp, pp, con1, C) ==
    EasuLumas(tex, fp, pp, con1, C, [x \in DOMAIN C |-> FsrLuma(C[x])])

\* FsrEasuF from fp = floor(pp) and the fraction pp on
EasuAt(tex, fp, pp, con1) ==
    EasuTaps(tex, fp, pp, con1,
             [b |-> EasuTap(tex, fp, 1, -1, con1), c |-> EasuTap(tex, fp, 3, -1, con1),
              i |-> EasuTap(tex, fp, -1, 1, con1), j |-> EasuTap(tex, fp, 1, 1, con1),
              f |-> EasuTap(tex, fp, 3, 1, con1), e |-> EasuTap(tex, fp, 5, 1, con1),
              k |-> EasuTap(tex, fp, -1, 3, con1), l |-> EasuTap(tex, fp, 1, 3, con1),
              h |-> EasuTap(tex, fp, 3, 3, con1), g |-> EasuTap(tex, fp, 5, 3, con1),
              o |-> EasuTap(tex, fp, 1, 5, con1), n |-> EasuTap(tex, fp, 3, 5, con1)])

EasuFrom(tex, pp, con1) ==
    EasuAt(tex, <<FFloor(pp[1]), FFloor(pp[2])>>,
           <<FSub(pp[1], FFloor(pp[1])), FSub(pp[2], FFloor(pp[2]))>>, con1)

\* FsrEasuF: pp = ip * con0.xy + con0.zw
FsrEasuF(tex, ip, con0, con1) ==
    EasuFrom(tex, <<FAdd(FMul(ip[1], con0[1]), con0[3]), FAdd(FMul(ip[2], con0[2]), con0[4])>>,
             con1)

Tone(v) == V3(Q(v, 4), Q(v, 4), Q(v, 4))

\* a ramp whose slope grows along both axes
Ramp(size) == Texture(size, [p \in PixelsOf(size) |-> Tone(p[1] * p[1] + 2 * p[2])])

\* render-resolution inputs and the output sizes they are upscaled to
EasuInputs ==
    ({Checker(<<3, 3>>, Black, Tone(4)), Ramp(<<3, 3>>), Spot(<<3, 3>>, <<1, 1>>, Tone(8), Tone(2))}
        \X {<<5, 5>>})
    \cup ({Checker(<<2, 2>>, Tone(1), Tone(3)), Ramp(<<2, 2>>)} \X {<<4, 4>>})

InitEasu ==
    /\ NoFrame
    /\ \E in \in EasuInputs : \E p \in PixelsOf(in[2]) :
           call = [fn |-> "FsrEasuF", tex |-> in[1], p |-> p,
                   constants |-> GetConstants([NoFSR EXCEPT !.mRenderWidth = in[1].w,
                                                            !.mRenderHeight = in[1].h,
                                                            !.mOutputWidth = in[2][1],
                                                            !.mOutputHeight = in[2][2]])]
    /\ ret = NoReturn
    /\ fsr = NoFSR
    /\ app = NoApp

\* PS_EASU: FsrEasuF(pin.PosH.xy, Const0, Const1, Const2, Const3) at the centre of pixel p
CallEasu ==
    /\ call.fn = "FsrEasuF"
    /\ ret = NoReturn
    /\ ret' = <<FsrEasuF(call.tex, <<Q(2 * call.p[1] + 1, 2), Q(2 * call.p[2] + 1, 2)>>,
                         call.constants.Const0, call.constants.Const1)>>
    /\ UNCHANGED <<frameVars, call, fsr, app>>

SpecEasu == InitEasu /\ [][CallEasu]_vars

(***************************************************************************)
(* TerrainApp: the frame resources the CPU cycles through, the fence the   *)
(* GPU signals, and the material buffer of each frame resource.  The GPU   *)
(* runs concurrently with the CPU and completes the submitted frames in    *)
(* the order of their fence values.                                        *)
(***************************************************************************)
\* the fence value at which no further frame is submitted
MaxFence == 12

\* the values the fence may have reached when Initialize returns; Initialize ends in
\* FlushCommandQueue, so the GPU has completed everything submitted so far
InitialFences == {0, 1, 2}

FrameResources == 0 .. gNumFrameResources - 1

\* the test of TerrainApp::Update that never lets the CPU wait
FenceReachedAlways(fence, completed) == TRUE

\* TerrainApp::Update, the test before the wait: the frame resource was never submitted,
\* or the GPU has reached its fence; otherwise the CPU waits for the fence's event
FenceReached(fence, completed) == fence = 0 \/ completed >= fence

\* the dirty test of UpdateMaterialBuffer that holds for every material
MaterialDirtyAlways(numFramesDirty) == TRUE

\* TerrainApp::UpdateMaterialBuffer, the test on the material
MaterialDirty(numFramesDirty) == numFramesDirty > 0

\* TerrainApp::UpdateMaterialBuffer for the one material BuildMaterials creates: a dirty
\* material is copied into the current frame resource's buffer and is dirty in one
\* frame resource fewer
UpdateMaterialBuffer(a) ==
    IF MaterialDirty(a.NumFramesDirty)
    THEN [a EXCEPT !.MaterialBuffer[a.mCurrFrameResourceIndex] = @ + 1,
                   !.NumFramesDirty = @ - 1]
    ELSE a

\* the GPU may still be reading frame resource i of a
InFlight(a, i) == a.Fence[i] # 0 /\ a.completed < a.Fence[i]

\* TerrainApp::Initialize
InitTerrain ==
    /\ NoFrame
    /\ call = NoCall
    /\ ret = NoReturn
    /\ fsr = NoFSR
    /\ \E fence \in InitialFences :
           app = [NoApp EXCEPT !.pc = "Update", !.mCurrentFence = fence, !.completed = fence]

\* TerrainApp::Update: the index moves to the next frame resource, the CPU waits until
\* the GPU has reached that frame resource's fence, then the constant buffers and the
\* material buffer of the frame resource are written
Update ==
    /\ app.pc = "Update"
    /\ LET next == [app EXCEPT !.mCurrFrameResourceIndex = (@ + 1) % gNumFrameResources]
           idx  == next.mCurrFrameResourceIndex
       IN  /\ FenceReached(next.Fence[idx], next.completed)
           /\ app' = [UpdateMaterialBuffer(next) EXCEPT
                         !.pc = "Draw",
                         !.updates = @ + 1,
                         !.inFlightWritten = @ \/ InFlight(next, idx)]
    /\ UNCHANGED <<frameVars, call, ret, fsr>>

\* TerrainApp::Draw: the frame resource's command allocator is reset, the frame is
\* recorded and submitted, and the frame resource takes the next fence value, which
\* the command queue signals once the GPU has processed the frame
Draw ==
    /\ app.pc = "Draw"
    /\ app.mCurrentFence < MaxFence
    /\ app' = [app EXCEPT !.pc = "Update",
                          !.inFlightWritten = @ \/ InFlight(app, app.mCurrFrameResourceIndex),
                          !.Fence[app.mCurrFrameResourceIndex] = app.mCurrentFence + 1,
                          !.mCurrentFence = @ + 1]
    /\ UNCHANGED <<frameVars, call, ret, fsr>>

\* the GPU finishes the oldest frame in the queue and the fence takes its value
GpuComplete ==
    /\ app.completed < app.mCurrentFence
    /\ app' = [app EXCEPT !.completed = @ + 1]
    /\ UNCHANGED <<frameVars, call, ret, fsr>>

NextTerrain ==
    \/ Update
    \/ Draw
    \/ GpuComplete

SpecTerrain == InitTerrain /\ [][NextTerrain]_vars

(***************************************************************************)
(* Properties.                                                             *)
(***************************************************************************)
\* the current frame's colour at pixel p
CurrentAt(p) == gCurrentFrame.t[p]

\* the texel of the history buffer at pixel p
HistoryAt(p) == resource[mHistoryBuffer].t[p]

\* texCoord - velocity for the velocity the invocation of p selected
Reprojected(p) ==
    LET texCoord == TexC(p, <<mWidth, mHeight>>)
    IN  <<FSub(texCoord[1], ps[p].velocity[1]), FSub(texCoord[2], ps[p].velocity[2])>>

OffScreen(uv) == FLt(uv[1], Zero) \/ FGt(uv[1], One) \/ FLt(uv[2], Zero) \/ FGt(uv[2], One)

\* C1: when the reprojected coordinate (texCoord minus the selected velocity) has a
\* component below 0 or above 1, the resolve returns exactly the current frame's colour
\* of that pixel, whatever the history, depth and neighbouring colours are.
C1_InvalidHistoryReturnsCurrent ==
    \A p \in DOMAIN ps : OffScreen(Reprojected(p)) => ps[p].result = CurrentAt(p)

\* a pixel reprojected off the screen whose history texel and neighbours differ from it
C1_Witness ==
    \E p \in DOMAIN ps :
        /\ OffScreen(Reprojected(p))
        /\ HistoryAt(p) # CurrentAt(p)
        /\ \E q \in Pixels : CurrentAt(q) # CurrentAt(p)

\* the pixels the 3x3 neighbourhood of p samples, with clamped addresses
Taps3x3 == (-1 .. 1) \X (-1 .. 1)

TapPixel(p, d) == <<ClampI(p[1] + d[1], mWidth), ClampI(p[2] + d[2], mHeight)>>

RECURSIVE SumTaps(_, _)
SumTaps(p, D) ==
    IF D = {} THEN Black
    ELSE LET d == CHOOSE e \in D : TRUE
         IN  V3Add(CurrentAt(TapPixel(p, d)), SumTaps(p, D \ {d}))

NeighborhoodMean(p) == V3DivS(SumTaps(p, Taps3x3), Q(9, 1))

AtRest(p) == gMotionVectors.t[p] = NoMotion /\ HistoryAt(p) = CurrentAt(p)

\* C2 as stated: zero motion vector and history equal to the current colour give the
\* current colour back for every 3x3 neighbourhood.
C2_Original == \A p \in DOMAIN ps : AtRest(p) => ps[p].result = CurrentAt(p)

\* C2: with a zero motion vector at the pixel and at every pixel of its 3x3
\* neighbourhood, the history texel equal to the current colour, and the current colour
\* equal to the mean of its 3x3 neighbourhood, the resolve returns exactly the current
\* colour.
C2_Amended ==
    \A p \in DOMAIN ps :
        ( /\ AtRest(p)
          /\ \A d \in Taps3x3 : gMotionVectors.t[TapPixel(p, d)] = NoMotion
          /\ NeighborhoodMean(p) = CurrentAt(p) )
        => ps[p].result = CurrentAt(p)

\* such a pixel whose neighbourhood is not uniform
C2_Witness ==
    \E p \in DOMAIN ps :
        /\ AtRest(p)
        /\ \A d \in Taps3x3 : gMotionVectors.t[TapPixel(p, d)] = NoMotion
        /\ NeighborhoodMean(p) = CurrentAt(p)
        /\ \E d \in Taps3x3 : CurrentAt(TapPixel(p, d)) # CurrentAt(p)

Returned(fn) == call.fn = fn /\ ret # NoReturn

RestCall ==
    /\ call.historySample = call.currentColor
    /\ call.colorAvg = call.currentColor
    /\ call.colorStdDev = Black

\* C3: when the current colour, the history colour and the neighbourhood mean are one
\* colour and the variance box has zero extent, clipping returns the history unchanged,
\* the blend returns that colour for every blend factor, and sharpening and the clamp
\* leave it unchanged.
C3_IdempotentAtRest ==
    (Returned("ResolveColor") /\ RestCall) =>
        /\ ret[1].boxMin = ret[1].boxMax
        /\ ret[1].historyColor = call.historySample
        /\ ret[1].blended = call.currentColor
        /\ ret[1].result = call.currentColor

\* a call at rest on a colour that is not gray, blended with a factor strictly inside 0..1
C3_Witness ==
    /\ Returned("ResolveColor")
    /\ RestCall
    /\ call.currentColor = V3(Q(1, 5), Half, Q(4, 5))
    /\ call.adaptiveBlend = Q(3, 10)

\* the box of a ClipAABB call: centre, half-extents, and the offset of the point
ClipCenter == V3Scale(Half, V3Add(call.aabbMax, call.aabbMin))

ClipExtents == V3Scale(Half, V3Sub(call.aabbMax, call.aabbMin))

ClipOffset == V3Sub(call.prevColor, ClipCenter)

Axes == 1 .. 3

\* C4: ClipAABB returns a point that lies inside the box on every axis, the absolute
\* offset from the centre at most the half-extent, unchanged.
C4_InsideUnchanged ==
    (Returned("ClipAABB") /\ \A i \in Axes : FLe(FAbs(ClipOffset[i]), ClipExtents[i]))
        => ret[1] = call.prevColor

\* a point inside a box that is flat on one axis, off the centre on another
C4_Witness ==
    /\ Returned("ClipAABB")
    /\ \A i \in Axes : FLe(FAbs(ClipOffset[i]), ClipExtents[i])
    /\ \E i \in Axes : ClipExtents[i] = Zero
    /\ \E i \in Axes : ClipOffset[i] # Zero

\* the largest absolute component of the returned point, measured from the centre in
\* units of the half-extents; an axis that gives 0/0 does not count
NormalizedMax ==
    LET u == V3Abs(V3Div(V3Sub(ret[1], ClipCenter), ClipExtents))
    IN  FMax(u[1], FMax(u[2], u[3]))

\* the returned point is on the segment from the centre to the point passed in
OnCenterLine ==
    LET r == V3Sub(ret[1], ClipCenter)
        o == ClipOffset
    IN  /\ \A i \in Axes : \A j \in Axes : FMul(r[i], o[j]) = FMul(r[j], o[i])
        /\ \A i \in Axes : FGe(FMul(r[i], o[i]), Zero) /\ FLe(FAbs(r[i]), FAbs(o[i]))

\* C5 as stated: a point outside the box, for boxes with zero or negative half-extents
\* too, comes back with normalised largest absolute component 1, on the centre line.
C5_Original ==
    (Returned("ClipAABB") /\ \E i \in Axes : FGt(FAbs(ClipOffset[i]), ClipExtents[i]))
        => (NormalizedMax = One /\ OnCenterLine)

\* C5: when no half-extent is zero on an axis where the point is off the centre, a
\* point whose absolute offset exceeds the absolute half-extent on some axis comes back
\* with normalised largest absolute component 1 and on the line from the centre to the
\* point, for positive and negative half-extents; when a half-extent is zero on an axis
\* where the point is off the centre, the box centre comes back.
C5_Amended ==
    Returned("ClipAABB") =>
        IF \E i \in Axes : ClipExtents[i] = Zero /\ ClipOffset[i] # Zero
        THEN ret[1] = ClipCenter
        ELSE (\E i \in Axes : FGt(FAbs(ClipOffset[i]), FAbs(ClipExtents[i])))
                 => (NormalizedMax = One /\ OnCenterLine)

\* a point outside a box with a negative half-extent and no zero one, moved by the call
C5_Witness ==
    /\ Returned("ClipAABB")
    /\ \A i \in Axes : ClipExtents[i] # Zero
    /\ \E i \in Axes : FLt(ClipExtents[i], Zero)
    /\ \E i \in Axes : FGt(FAbs(ClipOffset[i]), FAbs(ClipExtents[i]))
    /\ ret[1] # call.prevColor

\* C6: YCoCgToRGB(RGBToYCoCg(c)) = c for every RGB triple c in [0,1]^3: equal in
\* exact arithmetic, and within 1e-5 on every channel in single precision.
C6_RoundTrip ==
    Returned("YCoCg") =>
        /\ ret[1].rgb = call.rgb
        /\ \A i \in Axes : IAbs(ret[1].out32[i] - ret[1].in32[i]) <= F32Unit \div 100000

\* a round trip of a colour with three different channels and non-zero chroma
C6_Witness ==
    /\ Returned("YCoCg")
    /\ call.rgb = V3(Q(1, 3), One, Q(1, 255))
    /\ ret[1].ycocg[2] # Zero
    /\ ret[1].ycocg[3] # Zero
    /\ ret[1].out32 # ret[1].in32

\* C7 as stated: the adaptive blend factor does not decrease when the motion magnitude
\* grows at fixed variance, nor when the variance grows at fixed motion.
C7_Monotone ==
    Returned("AdaptiveBlend") =>
        /\ \A m \in MotionLengths :
               FGe(m, call.motionLength) =>
                   FGe(AdaptiveBlend(call.blendFactor, m, call.variance, call.disoccluded),
                       ret[1])
        /\ \A v \in Variances :
               FGe(v, call.variance) =>
                   FGe(AdaptiveBlend(call.blendFactor, call.motionLength, v, call.disoccluded),
                       ret[1])

\* C8: for a pixel with valid history whose depth differs from the reprojected
\* history depth by more than 0.01, the factor the temporal blend uses is at least 0.8,
\* and the blend is the clipped history moved towards the current colour by that factor.
C8_DisocclusionFloor ==
    \A p \in DOMAIN ps :
        (ps[p].validHistory /\ FGt(ps[p].depthDiff, Q(1, 100))) =>
            /\ FGe(ps[p].adaptiveBlend, Q(4, 5))
            /\ ps[p].blended =
                   V3Add(ps[p].historyColor,
                         V3Scale(ps[p].adaptiveBlend,
                                 V3Sub(CurrentAt(p), ps[p].historyColor)))
            /\ \A i \in Axes :
                   FLe(FAbs(FSub(ps[p].blended[i], CurrentAt(p)[i])),
                       FMul(Q(1, 5), FAbs(FSub(ps[p].historyColor[i], CurrentAt(p)[i]))))

\* a disoccluded pixel whose history was clipped
C8_Witness ==
    \E p \in DOMAIN ps :
        /\ ps[p].validHistory
        /\ FGt(ps[p].depthDiff, Q(1, 100))
        /\ ps[p].historyColor # ps[p].historySample
        /\ ps[p].historyColor # CurrentAt(p)

\* the sample position, in texels, of a SampleTextureCatmullRom call
SamplePos == <<FMul(call.uv[1], Q(call.tex.w, 1)), FMul(call.uv[2], Q(call.tex.h, 1))>>

\* the sample position is the centre of a texel of the texture
OnTexelCentre ==
    /\ FSub(SamplePos[1], Half)[2] = 1
    /\ FSub(SamplePos[2], Half)[2] = 1
    /\ <<FFloor(SamplePos[1])[1], FFloor(SamplePos[2])[1]>> \in PixelsOf(<<call.tex.w, call.tex.h>>)

\* C9: when the sample position is exactly a texel centre, the fractional offset is 0 on
\* both axes, the Catmull-Rom weights are w1 = 1 and w0 = w2 = w3 = 0, and the function
\* returns exactly the texel at that position (texels are non-negative).
C9_TexelCentre ==
    (Returned("SampleTextureCatmullRom") /\ OnTexelCentre) =>
        /\ ret[1].x.f = Zero /\ ret[1].y.f = Zero
        /\ ret[1].x.w = <<Zero, One, Zero, Zero>>
        /\ ret[1].y.w = <<Zero, One, Zero, Zero>>
        /\ ret[1].value = call.tex.t[<<FFloor(SamplePos[1])[1], FFloor(SamplePos[2])[1]>>]

\* a sample at the centre of a texel whose neighbours hold other colours
C9_Witness ==
    /\ Returned("SampleTextureCatmullRom")
    /\ OnTexelCentre
    /\ \E q \in PixelsOf(<<call.tex.w, call.tex.h>>) : call.tex.t[q] # ret[1].value
    /\ call.tex.w = 3

\* C10: the two buffers alternate: the buffer a frame's resolve reads as history is the
\* one the previous frame's resolve wrote, a frame reads one history buffer, and that
\* buffer is never the one the frame writes.
C10_PingPong ==
    /\ mTAAOutput # mHistoryBuffer
    /\ reads \subseteq {mHistoryBuffer}
    /\ writes \subseteq {mTAAOutput}
    /\ reads \cap writes = {}
    /\ (pending = {} => Cardinality(reads) = 1)
    /\ (frame >= 1 => mHistoryBuffer = lastWritten)

\* the third frame resolved, reading what the second wrote
C10_Witness == frame = 2 /\ pending = {} /\ reads = {lastWritten}

(***************************************************************************)
(* Motion vectors                                                          *)
(***************************************************************************)
\* texture-space position of a clip-space position: u = 0.5*x + 0.5, v = 1 - (0.5*y + 0.5)
TexPos(posH) ==
    <<FAdd(FMul(Half, NDC(posH)[1]), Half),
      FSub(One, FAdd(FMul(Half, NDC(posH)[2]), Half))>>

\* C11: the velocity the motion-vector pixel shader returns is the previous texture-space
\* position minus the current texture-space position, on both axes
C11_TextureSpaceVelocity ==
    Returned("MotionVectors") =>
        ret[1].velocity = <<FSub(TexPos(ret[1].pin.PrevPosH)[1], TexPos(ret[1].pin.CurrPosH)[1]),
                            FSub(TexPos(ret[1].pin.PrevPosH)[2], TexPos(ret[1].pin.CurrPosH)[2])>>

\* C12: the history coordinate the resolver computes from the estimator's velocity, for a
\* pixel at the current texture-space position, is the previous texture-space position
C12_ReprojectionFindsPrevious ==
    Returned("MotionVectors") =>
        HistoryTexCoord(TexPos(ret[1].pin.CurrPosH), ret[1].velocity) = TexPos(ret[1].pin.PrevPosH)

OutputAt(p) == resource[mTAAOutput].t[p]

Distance(a, b) == FAbs(FSub(a, b))

ConvergenceTolerance == Q(1, 20)

\* from the second frame on, no channel of a resolved pixel is farther from the ground
\* truth than it was in the output of the frame before
NeverFarther ==
    \A p \in DOMAIN ps : \A ch \in Axes :
        frame >= 1 =>
            FLe(Distance(OutputAt(p)[ch], CurrentAt(p)[ch]),
                Distance(HistoryAt(p)[ch], CurrentAt(p)[ch]))

\* from the tenth frame on, every channel of a resolved pixel is within the tolerance
\* of the ground truth
CloseAfterTen ==
    \A p \in DOMAIN ps : \A ch \in Axes :
        frame >= StaticFrames - 1 =>
            FLe(Distance(OutputAt(p)[ch], CurrentAt(p)[ch]), ConvergenceTolerance)

\* C13: in a static scene resolved against its own output, the distance between output
\* and ground truth never grows from one frame to the next, and after ten frames the
\* output is within the tolerance of the ground truth, whatever the first history was
C13_StaticConvergence == NeverFarther /\ CloseAfterTen

(***************************************************************************)
(* Checkerboard against mid-gray                                           *)
(***************************************************************************)
\* the values of channel ch over the 3x3 neighbourhood of p in the current frame
ChannelValues(p, ch) == {gCurrentFrame.t[TapPixel(p, d)][ch] : d \in Taps3x3}

ChannelMin(p, ch) == CHOOSE v \in ChannelValues(p, ch) : \A u \in ChannelValues(p, ch) : FLe(v, u)

ChannelMax(p, ch) == CHOOSE v \in ChannelValues(p, ch) : \A u \in ChannelValues(p, ch) : FGe(v, u)

\* mid-gray lies outside the range of the neighbourhood on some channel
OutsideRange(p) ==
    \E ch \in Axes : FLt(MidGray[ch], ChannelMin(p, ch)) \/ FGt(MidGray[ch], ChannelMax(p, ch))

\* the point of the min/max box nearest to mid-gray
NearestInRange(p) ==
    [ch \in Axes |-> FMax(ChannelMin(p, ch), FMin(ChannelMax(p, ch), MidGray[ch]))]

\* pixels resolved with a uniform mid-gray history sample
GrayHistory(p) == ps[p].validHistory /\ ps[p].historySample = MidGray

\* the box the history of p is clipped to, in YCoCg: its centre and half-extents, and the
\* offsets of mid-gray and of the clipped history from the centre
BoxCenter(p) == V3Scale(Half, V3Add(RGBToYCoCg(ps[p].boxMax), RGBToYCoCg(ps[p].boxMin)))

BoxExtents(p) == V3Scale(Half, V3Sub(RGBToYCoCg(ps[p].boxMax), RGBToYCoCg(ps[p].boxMin)))

GrayOffset(p) == V3Sub(RGBToYCoCg(MidGray), BoxCenter(p))

ClippedOffset(p) == V3Sub(RGBToYCoCg(ps[p].historyColor), BoxCenter(p))

OutsideBox(p) == \E i \in Axes : FGt(FAbs(GrayOffset(p)[i]), FAbs(BoxExtents(p)[i]))

FlatAxis(p) == \E i \in Axes : BoxExtents(p)[i] = Zero /\ GrayOffset(p)[i] # Zero

\* the clipped history lies on the surface of the box
OnSurface(p) ==
    /\ \A i \in Axes : FLe(FAbs(ClippedOffset(p)[i]), FAbs(BoxExtents(p)[i]))
    /\ \E i \in Axes : BoxExtents(p)[i] # Zero
                       /\ FAbs(ClippedOffset(p)[i]) = FAbs(BoxExtents(p)[i])

\* the clipped history lies between the centre and mid-gray, on the line through them
TowardsCenter(p) ==
    /\ \A i, j \in Axes :
           FMul(ClippedOffset(p)[i], GrayOffset(p)[j]) = FMul(ClippedOffset(p)[j], GrayOffset(p)[i])
    /\ \A i \in Axes : FGe(FMul(ClippedOffset(p)[i], GrayOffset(p)[i]), Zero)
                       /\ FLe(FAbs(ClippedOffset(p)[i]), FAbs(GrayOffset(p)[i]))

WithinRange(p) ==
    \A ch \in Axes : /\ FGe(ps[p].historyColor[ch], ChannelMin(p, ch))
                     /\ FLe(ps[p].historyColor[ch], ChannelMax(p, ch))

\* the history colour of p, in YCoCg, lies within the box spanned by the transformed
\* corners on every axis
WithinBox(p) == \A i \in Axes : FLe(FAbs(ClippedOffset(p)[i]), FAbs(BoxExtents(p)[i]))

ScaleTenths(mode) ==
    CASE mode = "UltraQuality" -> 13
      [] mode = "Quality"      -> 15
      [] mode = "Balanced"     -> 17
      [] mode = "Performance"  -> 20

\* max(1, floor(size / s)) for the scale s of the mode
ExpectedRender(size, mode) == UintMax(1, (size * 10) \div ScaleTenths(mode))

\* C16: the render resolution is max(1, floor(output / s)) on both axes for the scale s
\* of the current quality mode, after construction and after every SetQualityMode and
\* OnResize
C16_RenderResolutionCurrent ==
    fsr # NoFSR =>
        /\ fsr.mRenderWidth = ExpectedRender(fsr.mOutputWidth, fsr.mQualityMode)
        /\ fsr.mRenderHeight = ExpectedRender(fsr.mOutputHeight, fsr.mQualityMode)

C16_Witness ==
    /\ fsr # NoFSR
    /\ fsr.mQualityMode = "Balanced"
    /\ fsr.mOutputWidth = 170
    /\ fsr.mRenderWidth = 100
    /\ fsr.mOutputHeight = 13
    /\ fsr.mRenderHeight = 7
    /\ fsr.views = "stale"

(***************************************************************************)
(* RCAS lobe                                                               *)
(***************************************************************************)
\* FsrRcasF has returned
RcasReturned == call # NoCall /\ call.fn = "FsrRcasF" /\ ret # NoReturn

\* C17: for non-negative five-tap neighbourhoods and a sharpness in [0, 2] the lobe of
\* FsrRcasF is in [-0.1875, 0] and the denominator 4 * lobe + 1 is in [0.25, 1]
C17_LobeBounded ==
    RcasReturned =>
        /\ FLe(Q(-3, 16), ret[1].lobe) /\ FLe(ret[1].lobe, Zero)
        /\ FLe(Q(1, 4), ret[1].denominator) /\ FLe(ret[1].denominator, One)

\* C17 acts: a bright neighbourhood at full sharpening, where the lower bound is what
\* limits the lobe
C17_Witness ==
    /\ RcasReturned
    /\ call.sharpness = Zero
    /\ FLt(One, ret[1].mn)
    /\ FLt(ret[1].lobeRGB, Q(-3, 16))
    /\ ret[1].lobe = Q(-3, 16)
    /\ ret[1].denominator = Q(1, 4)

(***************************************************************************)
(* Non-negative output                                                     *)
(***************************************************************************)
NonNegative(c) == \A i \in 1..3 : FGe(c[i], Zero)

\* C18: the colour PS returns is non-negative on every channel, on the early return of
\* an invalid reprojection and at the end of the valid-history path
C18_OutputNonNegative == \A p \in DOMAIN ps : NonNegative(ps[p].result)

\* C18 acts: a history of negative texels on the valid-history path and a blended colour
\* that the unsharp mask takes below zero, which the final clamp raises to zero
C18_Witness ==
    \E p \in DOMAIN ps :
        /\ ps[p].validHistory
        /\ \E i \in 1..3 : FLt(resource[mHistoryBuffer].t[p][i], Zero)
        /\ \E i \in 1..3 : /\ FLt(Unsharp(ps[p].blended, ps[p].colorAvg)[i], Zero)
                           /\ ps[p].result[i] = Zero

(***************************************************************************)
(* Order independence within a frame                                       *)
(***************************************************************************)
\* the colours PS returns for pixel p, from the bound inputs alone
Resolves(p) ==
    {PS(gCurrentFrame, resource[mHistoryBuffer], gMotionVectors, gDepthMap, gScreenSize,
        gBlendFactor, p)}

NineVectors(p) == {gMotionVectors.t[TapPixel(p, d)] : d \in Taps3x3}

\* no neighbour's vector is strictly longer than the pixel's own
OwnIsLongest(p) ==
    \A v \in NineVectors(p) : ~FGt(length2(v), length2(gMotionVectors.t[p]))

\* C21: the velocity used for reprojection is one of the nine motion vectors of the 3x3
\* neighbourhood, no vector among the nine is longer, and it is the pixel's own vector
\* when no neighbour is strictly longer than the pixel's own
C21_DilatedVelocity ==
    \A p \in DOMAIN ps :
        /\ ps[p].velocity \in NineVectors(p)
        /\ \A v \in NineVectors(p) : FLe(length2(v), length2(ps[p].velocity))
        /\ OwnIsLongest(p) => ps[p].velocity = gMotionVectors.t[p]

\* C21 acts: a neighbour's longer vector replaced the pixel's own, on a frame where
\* another neighbour has a vector of a third length
C21_Witness ==
    \E p \in DOMAIN ps :
        /\ ~OwnIsLongest(p)
        /\ ps[p].velocity # gMotionVectors.t[p]
        /\ \E v \in NineVectors(p) : /\ FLt(length2(v), length2(ps[p].velocity))
                                     /\ FGt(length2(v), length2(gMotionVectors.t[p]))

(***************************************************************************)
(* Variance box against the min/max range                                  *)
(***************************************************************************)
\* the box of p is contained in the range of the nine samples on channel ch
BoxInRange(p, ch) ==
    /\ FGe(ps[p].boxMin[ch], ChannelMin(p, ch))
    /\ FLe(ps[p].boxMax[ch], ChannelMax(p, ch))

\* the box of p is no wider than the range of the nine samples on channel ch and is
\* centred on their mean, which lies in the range
BoxNoWider(p, ch) ==
    /\ FLe(FSub(ps[p].boxMax[ch], ps[p].boxMin[ch]), FSub(ChannelMax(p, ch), ChannelMin(p, ch)))
    /\ FAdd(ps[p].boxMin[ch], ps[p].boxMax[ch]) = FMul(Q(2, 1), ps[p].colorAvg[ch])
    /\ FGe(ps[p].colorAvg[ch], ChannelMin(p, ch))
    /\ FLe(ps[p].colorAvg[ch], ChannelMax(p, ch))

\* C22 as stated: on every channel the box mean -+ stddev is contained in [min, max] of
\* the nine samples
C22_Original == \A p \in DOMAIN ps : ps[p].validHistory => \A ch \in Axes : BoxInRange(p, ch)

\* C22: on every channel the box mean -+ stddev is no wider than [min, max] of the nine
\* samples and its centre, the mean, lies in [min, max]
C22_Amended == \A p \in DOMAIN ps : ps[p].validHistory => \A ch \in Axes : BoxNoWider(p, ch)

\* C22 acts: a box of positive width that reaches below the minimum of the samples
C22_Witness ==
    \E p \in DOMAIN ps :
        /\ ps[p].validHistory
        /\ \E ch \in Axes : /\ FLt(ps[p].boxMin[ch], ps[p].boxMax[ch])
                            /\ FLt(ps[p].boxMin[ch], ChannelMin(p, ch))
                            /\ FLt(ps[p].boxMax[ch], ChannelMax(p, ch))

(***************************************************************************)
(* Nine bilinear taps against the full 4x4 filter                          *)
(***************************************************************************)
\* the texel index floor(samplePos - 0.5) of the second of the four taps on an axis
SecondTap(samplePos) == FFloor(FSub(samplePos, Half))[1]

\* the weights w0..w3 of the axis for the offset of samplePos from that texel's centre
FourWeights(samplePos) ==
    CatmullRomWeights(FSub(samplePos, FAdd(Q(SecondTap(samplePos), 1), Half)))

\* the point sample with edge clamp of texel <<i, j>>
PointTap(tex, i, j) == tex.t[<<ClampI(i, tex.w), ClampI(j, tex.h)>>]

\* one row of the 4x4 filter: four point samples weighted by w0..w3 of the x axis
FilterRow(tex, ix, j, wx) ==
    V3Add(V3Add(V3Scale(wx[1], PointTap(tex, ix - 1, j)), V3Scale(wx[2], PointTap(tex, ix, j))),
          V3Add(V3Scale(wx[3], PointTap(tex, ix + 1, j)), V3Scale(wx[4], PointTap(tex, ix + 2, j))))

\* the four rows weighted by w0..w3 of the y axis
FilterRows(tex, ix, iy, wx, wy) ==
    V3Add(V3Add(V3Scale(wy[1], FilterRow(tex, ix, iy - 1, wx)),
                V3Scale(wy[2], FilterRow(tex, ix, iy, wx))),
          V3Add(V3Scale(wy[3], FilterRow(tex, ix, iy + 1, wx)),
                V3Scale(wy[4], FilterRow(tex, ix, iy + 2, wx))))

\* the full 4x4 Catmull-Rom filter at the sample position of the call
Full4x4 ==
    FilterRows(call.tex, SecondTap(SamplePos[1]), SecondTap(SamplePos[2]),
               FourWeights(SamplePos[1]), FourWeights(SamplePos[2]))

\* C23: the nine weighted bilinear taps of SampleTextureCatmullRom, before the clamp to
\* non-negative, sum to the value of the full 4x4 Catmull-Rom filter over the sixteen
\* point samples
C23_NineTapsAreFull4x4 == Returned("SampleTextureCatmullRom") => ret[1].nine = Full4x4

\* C23 acts: a sample between texel centres on both axes of a texture that is not
\* uniform, where the filter overshoots below zero and the clamp changes the value
C23_Witness ==
    /\ Returned("SampleTextureCatmullRom")
    /\ ret[1].x.f # Zero /\ ret[1].y.f # Zero
    /\ ret[1].x.w[1] # Zero /\ ret[1].y.w[4] # Zero
    /\ \E i \in Axes : FLt(ret[1].nine[i], Zero)
    /\ ret[1].value # ret[1].nine

(***************************************************************************)
(* EASU result                                                             *)
(***************************************************************************)
\* the texel of the call's input texture at offset <<dx, dy>> from texel fp, edge clamped
NearTap(dx, dy) == PointTap(call.tex, ret[1].fp[1][1] + dx, ret[1].fp[2][1] + dy)

\* the bilinear interpolation of the four texels nearest to the sample position
PlainBilinear ==
    V3Lerp(V3Lerp(NearTap(0, 0), NearTap(1, 0), ret[1].pp[1]),
           V3Lerp(NearTap(0, 1), NearTap(1, 1), ret[1].pp[1]), ret[1].pp[2])

\* C24: FsrEasuF returns the bilinear interpolation of the four nearest taps j, f, l, h
\* at the fraction pp, whatever the other eight taps, the direction and the stretch are
C24_PlainBilinear == Returned("FsrEasuF") => ret[1].result = PlainBilinear

\* C24 acts: an edge was detected (the direction is not the default and the stretch is
\* not zero), the edge-aware sample differs from the result, and among the other eight
\* taps there is a colour that none of the four nearest taps has
C24_Witness ==
    /\ Returned("FsrEasuF")
    /\ ret[1].dir # <<One, Zero>>
    /\ FGt(ret[1].stretch, Zero)
    /\ ret[1].aC # ret[1].result
    /\ \E x \in {"b", "c", "i", "e", "k", "g", "o", "n"} :
           ret[1].taps[x] \notin {ret[1].taps.j, ret[1].taps.f, ret[1].taps.l, ret[1].taps.h}

(***************************************************************************)
(* FSR sharpness                                                           *)
(***************************************************************************)
\* C25: after any sequence of SetSharpness calls the sharpness GetSharpness returns lies
\* in [0, 2] and is the RCASSharpness of GetConstants
C25_SharpnessInRange ==
    fsr # NoFSR =>
        /\ FLe(Zero, fsr.mSharpness)
        /\ FLe(fsr.mSharpness, Q(2, 1))
        /\ GetConstants(fsr).RCASSharpness = fsr.mSharpness

C27_ViewsCurrent == (fsr # NoFSR /\ fsr.handles) => fsr.views = "current"

(***************************************************************************)
(* Range of the adaptive blend factor                                      *)
(***************************************************************************)
\* every channel of the blend of history h and current colour c by factor a lies between
\* the channel of h and the channel of c
Convex(h, c, a) ==
    \A i \in Axes : /\ FGe(TemporalBlend(h, c, a)[i], FMin(h[i], c[i]))
                    /\ FLe(TemporalBlend(h, c, a)[i], FMax(h[i], c[i]))

\* C28: the adaptive blend factor is in [base, 0.5] for a pixel that is not disoccluded
\* and is 0.8 for a disoccluded one, so it is in [0, 1] and the temporal blend is a convex
\* combination of the clipped history and the current colour on every channel
C28_BlendRange ==
    Returned("AdaptiveBlend") =>
        /\ IF call.disoccluded THEN ret[1] = Q(4, 5)
           ELSE FGe(ret[1], call.blendFactor) /\ FLe(ret[1], Half)
        /\ FGe(ret[1], Zero) /\ FLe(ret[1], One)
        /\ \A h \in TailColors, c \in TailColors : Convex(h, c, ret[1])

\* C28 acts: motion beyond 40 pixels at zero variance takes the factor of a pixel that is
\* not disoccluded to its upper bound
C28_Witness ==
    /\ Returned("AdaptiveBlend")
    /\ ~call.disoccluded
    /\ FGt(call.motionLength, Q(40, 1))
    /\ call.variance = Zero
    /\ ret[1] = Half

(***************************************************************************)
(* C29: in TerrainApp the CPU never writes the constant buffers or resets  *)
(* the command allocator of a frame resource whose submitted GPU work has  *)
(* not completed: once Update is past its wait the fence has reached the   *)
(* current frame resource's Fence, the index is the number of Updates      *)
(* modulo 3, and the CPU has submitted at most gNumFrameResources frames   *)
(* the GPU has not completed.                                              *)
(***************************************************************************)
C29_FrameResourceSync ==
    app # NoApp =>
        /\ ~app.inFlightWritten
        /\ app.pc = "Draw" => ~InFlight(app, app.mCurrFrameResourceIndex)
        /\ app.mCurrFrameResourceIndex = app.updates % gNumFrameResources
        /\ app.mCurrentFence - app.completed <= gNumFrameResources

\* the CPU is three frames ahead and waits in Update for the frame resource it would
\* write next
C29_Witness ==
    /\ app.pc = "Update"
    /\ app.updates >= gNumFrameResources
    /\ app.mCurrentFence - app.completed = gNumFrameResources
    /\ InFlight(app, (app.mCurrFrameResourceIndex + 1) % gNumFrameResources)

(***************************************************************************)
(* C30: in TerrainApp a material that starts dirty in gNumFrameResources   *)
(* frame resources is copied exactly once into the material buffer of      *)
(* each frame resource over the next three Updates, one per Update; after  *)
(* them NumFramesDirty is 0 and no Update copies it again, and             *)
(* NumFramesDirty is never negative.                                       *)
(***************************************************************************)
C30_MaterialCopiedOnce ==
    app # NoApp =>
        /\ app.NumFramesDirty >= 0
        /\ app.NumFramesDirty =
               IF app.updates < gNumFrameResources THEN gNumFrameResources - app.updates ELSE 0
        /\ \A i \in FrameResources :
               app.MaterialBuffer[i] =
                   IF (i + gNumFrameResources - 1) % gNumFrameResources < app.updates THEN 1 ELSE 0

\* Updates beyond the third have run and every frame resource holds its one copy
C30_Witness ==
    /\ app.updates > gNumFrameResources + 1
    /\ app.NumFramesDirty = 0
    /\ \A i \in FrameResources : app.MaterialBuffer[i] = 1

=========================================================================
